---- MODULE Spec2Model ----
(***************************************************************************)
(* Overlay synchronisation engine of SafeStreets-AI (app/src/App.jsx,      *)
(* second MapView variant, lines 644-1434) together with the theme switch  *)
(* of TopRightControls.jsx.  The map surface (mapbox-gl) is modelled by    *)
(* the calls the engine makes on it: a style document that is either still *)
(* loading or loaded, an ordered layer list, named sources, fog, a camera  *)
(* target, the rotate interactions and the one-shot 'style.load' listeners.*)
(***************************************************************************)
EXTENDS Integers, Sequences, FiniteSets, TLC

\* ------------------------------------------------------------------ bounds
\* zoom is kept in tenths of a zoom level; the zoom buttons are followed
\* this many steps below the initial zoom (one step reaches the next bucket)
ZoomSpan == 2

\* largest number of one-shot 'style.load' listeners kept registered
MaxPending == 2
\* longest edge list handed to the sampler on its own
MaxEdges == 2

\* ------------------------------------------------------- program constants
initialZoom == 122
ZoomStep == 10
ZoomMax == 200
ZoomMin == 10
Infinity == 1000000
FallbackMinLayers == 50

HEAT_LAYER_ID == "risk-heat"
HEAT_SOURCE_ID == "risk-points"
EXTRUSION_ID == "add-hackopoly-buildings"
RouteNames == <<"fastest", "safest", "weighted">>

\* ---------------------------------------------------------------- helpers
NoProps == [k \in {} |-> ""]

Put(f, k, v) == [x \in (DOMAIN f) \cup {k} |-> IF x = k THEN v ELSE f[x]]

\* the entries of props whose mutation does not throw: each one is written
\* inside a try block of its own, so only the rejected property is lost
Accepted(props, bad) == [k \in (DOMAIN props) \ {bad} |-> props[k]]

Layer(id, type, paint, layout) ==
    [id |-> id, type |-> type, paint |-> paint, layout |-> layout]

IndexOf(ls, id) ==
    IF \E i \in 1..Len(ls) : ls[i].id = id
    THEN CHOOSE i \in 1..Len(ls) : ls[i].id = id
    ELSE 0

Without(ls, id) == SelectSeq(ls, LAMBDA l : l.id # id)

InsertBefore(ls, l, beforeId) ==
    LET i == IndexOf(ls, beforeId) IN
    IF i = 0 THEN Append(ls, l)
    ELSE SubSeq(ls, 1, i - 1) \o <<l>> \o SubSeq(ls, i, Len(ls))

\* --------------------------------------------------------- style documents
\* A base style document: its layers bottom to top, and `pad', the number
\* of further layers of the document that carry no paint or layout value
\* and that no theme rule matches (they only count for layers.length).
DocStreets ==
    [pad |-> 60,
     layers |-> <<
        Layer("land", "background", ("background-color" :> "land0"), NoProps),
        Layer("water", "fill", ("fill-color" :> "water0"), NoProps),
        Layer("landuse", "fill", ("fill-color" :> "park0"), NoProps),
        Layer("sky", "sky", NoProps, NoProps),
        Layer("poi-icon", "symbol", NoProps, ("icon-image" :> "dot")),
        Layer("poi-label", "symbol", ("text-color" :> "text0"),
              ("text-field" :> "name") @@ ("text-font" :> "font0")) >>]

\* a document below the layer count the fallback asks for, without labels
DocSmall ==
    [pad |-> 0,
     layers |-> <<
        Layer("land", "background", ("background-color" :> "land0"), NoProps),
        Layer("building", "fill", ("fill-color" :> "bld0"), NoProps),
        Layer("road-street", "line", ("line-color" :> "road0"), NoProps) >>]

StyleDocs == {DocStreets, DocSmall}

\* lower-cased layer id contains the word (String.includes / RegExp.test)
IdHas(id, word) ==
    <<id, word>> \in {<<"water", "water">>, <<"landuse", "landuse">>,
                       <<"building", "building">>,
                       <<"road-street", "road">>, <<"road-street", "street">>,
                       <<"sky", "sky">>,
                       <<"add-hackopoly-buildings", "building">>}

IdHasAny(id, words) == \E x \in words : IdHas(id, x)

\* ------------------------------------------------------------ heat sampling
\* spacingForZoom with the spacings of z15 and z14 exchanged
spacingForZoom_exchanged(z) ==
    IF z >= 160 THEN 8
    ELSE IF z >= 150 THEN 60
    ELSE IF z >= 140 THEN 30
    ELSE IF z >= 120 THEN 200
    ELSE IF z >= 100 THEN 300
    ELSE Infinity

\* spacingForZoom with the z15 threshold half a level late
spacingForZoom_lateThreshold(z) ==
    IF z >= 160 THEN 8
    ELSE IF z >= 155 THEN 30
    ELSE IF z >= 140 THEN 60
    ELSE IF z >= 120 THEN 200
    ELSE IF z >= 100 THEN 300
    ELSE Infinity

spacingForZoom(z) ==
    IF z >= 160 THEN 8
    ELSE IF z >= 150 THEN 30
    ELSE IF z >= 140 THEN 60
    ELSE IF z >= 120 THEN 200
    ELSE IF z >= 100 THEN 300
    ELSE Infinity

zoomBucket(z) ==
    IF z >= 160 THEN "z16+"
    ELSE IF z >= 150 THEN "z15"
    ELSE IF z >= 140 THEN "z14"
    ELSE IF z >= 120 THEN "z12-13"
    ELSE IF z >= 100 THEN "z10-11"
    ELSE "z<10"

\* Coordinates are kept in thousandths of a degree, risk scores in
\* hundredths, distances in micrometres.  A sampled coordinate is the exact
\* fraction n/d that the floating-point expression approximates.
Frac(n, d) == [n |-> n, d |-> d]

Abs(x) == IF x < 0 THEN -x ELSE x

Min(a, b) == IF a < b THEN a ELSE b

Max(a, b) == IF a > b THEN a ELSE b

\* R * pi / 180 for one thousandth of a degree of latitude, and the same
\* along the parallel of 40 degrees (times cos 40)
UmPerMilliDegree == 111194927
UmPerMilliDegreeAt40 == 85180218
MetreUm == 1000000

\* the great-circle distance, for the edges of the model: they run along a
\* meridian or along the parallel of 40 degrees
haversine(lat1, lon1, lat2, lon2) ==
    IF lon1 = lon2 THEN Abs(lat2 - lat1) * UmPerMilliDegree
    ELSE Abs(lon2 - lon1) * UmPerMilliDegreeAt40

Edge(from, to, risk) == [from |-> from, to |-> to, risk_score |-> risk]

\* what +x yields for a coordinate that is no number; no coordinate of the
\* model comes near it
NaN == 1000000000

\* isFinite taking every coordinate for a number
isFinite_always(x) == TRUE

\* isFinite(x), line 721
isFinite(x) == x # NaN

\* HeatPoint with the axes left in the order of the input
HeatPoint_latLon(risk, lon, lat) == [mag |-> risk, risk |-> risk, coordinates |-> <<lat, lon>>]

\* a feature of the collection: properties mag and risk, Point coordinates
HeatPoint(risk, lon, lat) == [mag |-> risk, risk |-> risk, coordinates |-> <<lon, lat>>]

\* the midpoint feature put at the start of the edge
midPoint_atFrom(seg, risk) ==
    HeatPoint(risk, Frac(2 * seg.from[2], 2), Frac(2 * seg.from[1], 2))

\* lines 728-734 and 756-762
midPoint(seg, risk) ==
    HeatPoint(risk, Frac(seg.from[2] + seg.to[2], 2), Frac(seg.from[1] + seg.to[1], 2))

\* the clamp without its lower end
clampRisk_upperOnly(r) == Min(100, r)

\* Math.max(0, Math.min(1, +seg.risk_score || 0)) (line 723), in hundredths
clampRisk(r) == Max(0, Min(100, r))

\* the loop body dropping an edge whose ends coincide
edgeFeatures_skipZeroLength(seg, step) ==
    IF Len(seg.from) < 2 \/ Len(seg.to) < 2 \/ seg.from = seg.to THEN <<>>
    ELSE IF ~isFinite(seg.from[1]) \/ ~isFinite(seg.from[2])
            \/ ~isFinite(seg.to[1]) \/ ~isFinite(seg.to[2]) THEN <<>>
    ELSE LET fromLat == seg.from[1]
             fromLon == seg.from[2]
             toLat == seg.to[1]
             toLon == seg.to[2]
             risk == clampRisk(seg.risk_score)
             mid == midPoint(seg, risk)
             n == Max(1, haversine(fromLat, fromLon, toLat, toLon) \div (step * MetreUm))
         IN  IF step = Infinity THEN <<mid>>
             ELSE [i \in 1..n |->
                      HeatPoint(risk,
                                Frac(fromLon * (n + 1) + (toLon - fromLon) * i, n + 1),
                                Frac(fromLat * (n + 1) + (toLat - fromLat) * i, n + 1))]

\* the features one list element contributes (body of the for loop)
edgeFeatures(seg, step) ==
    IF Len(seg.from) < 2 \/ Len(seg.to) < 2 THEN <<>>
    ELSE IF ~isFinite(seg.from[1]) \/ ~isFinite(seg.from[2])
            \/ ~isFinite(seg.to[1]) \/ ~isFinite(seg.to[2]) THEN <<>>
    ELSE LET fromLat == seg.from[1]
             fromLon == seg.from[2]
             toLat == seg.to[1]
             toLon == seg.to[2]
             risk == clampRisk(seg.risk_score)
             mid == midPoint(seg, risk)
             n == Max(1, haversine(fromLat, fromLon, toLat, toLon) \div (step * MetreUm))
         IN  IF step = Infinity THEN <<mid>>
             ELSE [i \in 1..n |->
                      HeatPoint(risk,
                                Frac(fromLon * (n + 1) + (toLon - fromLon) * i, n + 1),
                                Frac(fromLat * (n + 1) + (toLat - fromLat) * i, n + 1))]
                  \o (IF n = 0 THEN <<mid>> ELSE <<>>)

\* the loop pushing the features of a later element in front
RECURSIVE heatFeatures_reversed(_, _, _)
heatFeatures_reversed(list, step, k) ==
    IF k > Len(list) THEN <<>>
    ELSE heatFeatures_reversed(list, step, k + 1) \o edgeFeatures(list[k], step)

\* the for loop of line 715 from element k on: feats in push order
RECURSIVE heatFeatures(_, _, _)
heatFeatures(list, step, k) ==
    IF k > Len(list) THEN <<>>
    ELSE edgeFeatures(list[k], step) \o heatFeatures(list, step, k + 1)

FeatureCollection(feats) == [type |-> "FeatureCollection", features |-> feats]

buildHeatGeoJSON(list, z) ==
    FeatureCollection(heatFeatures(list, spacingForZoom(z), 1))

\* {type: 'FeatureCollection', features: []}
EmptyData == FeatureCollection(<<>>)

\* __HEAT_GEO_CACHE = null
NoGeo == [type |-> "null", features |-> <<>>]

\* __HEAT_RAW_CACHE: null, or a list of edges
RawNull == [null |-> TRUE, list |-> <<>>]

Raw(list) == [null |-> FALSE, list |-> list]

\* ------------------------------------------------------------- heat loader
\* what the network answers to the one fetch of /heatmap: `arrives' is
\* false when fetch rejects, `res' when it resolves without a Response
Response(arrives, res, ok, ct, body, data) ==
    [arrives |-> arrives, res |-> res, ok |-> ok, ct |-> ct, body |-> body,
     data |-> data]

\* the edges the backend serves in the model: 556 m along a meridian
MainEdges == <<Edge(<<40000, -73000>>, <<40005, -73000>>, 50)>>

RespEdges == Response(TRUE, TRUE, TRUE, "application/json", "array", MainEdges)
RespTextEdges == Response(TRUE, TRUE, TRUE, "text/plain", "array", MainEdges)
RespEmpty == Response(TRUE, TRUE, TRUE, "application/json", "array", <<>>)
RespObject == Response(TRUE, TRUE, TRUE, "application/json", "object", <<>>)
RespBadJson == Response(TRUE, TRUE, TRUE, "application/json", "garbage", <<>>)
RespHtml == Response(TRUE, TRUE, TRUE, "text/html", "garbage", <<>>)
RespHttpError == Response(TRUE, TRUE, FALSE, "text/plain", "garbage", <<>>)
RespNothing == Response(TRUE, FALSE, FALSE, "", "garbage", <<>>)
RespNetwork == Response(FALSE, FALSE, FALSE, "", "garbage", <<>>)
NoResponse == Response(FALSE, FALSE, FALSE, "pending", "garbage", <<>>)

Responses == {RespEdges, RespTextEdges, RespEmpty, RespObject, RespBadJson,
              RespHtml, RespHttpError, RespNothing, RespNetwork}

Settled(state, value) == [state |-> state, value |-> value]

\* the async function of lines 769-796: rejected by a throw or by a
\* rejected await, fulfilled with the array (or [] for any other JSON value)
fetchHeat(r) ==
    IF ~r.arrives \/ ~r.res \/ ~r.ok THEN Settled("rejected", <<>>)
    ELSE IF r.ct = "application/json" /\ r.body = "garbage"
    THEN Settled("rejected", <<>>)
    ELSE IF r.ct # "application/json" /\ r.body = "garbage"
    THEN Settled("rejected", <<>>)
    ELSE Settled("fulfilled", IF r.body = "array" THEN r.data ELSE <<>>)

\* the promise without its catch handler
catchHeat_absent(p) == p

\* .catch(err => ...), lines 796-800
catchHeat(p) ==
    IF p.state = "rejected" THEN Settled("fulfilled", <<>>) ELSE p

\* the promise __HEAT_GEO_LOADING settles with
loadHeat(r) == catchHeat(fetchHeat(r))


\* ---------------------------------------------------------------- state
VARIABLES
    doc,             \* the style document behind 'mapbox://styles/mapbox/streets-v12'
    mounted,         \* MapView is mounted (mapRef.current is a live map)
    listeners,       \* window events that have a listener of MapView registered
    orphan,          \* a continuation of __HEAT_GEO_LOADING holds a removed map
    destinationMarker, \* position of map.__destinationMarker; <<>>: none
    picked,          \* the last suggestion picked and what the endpoint answered
    loaded,          \* the style document of the map has finished loading
    loadFired,       \* the map's 'load' event has been delivered
    busy,            \* sources/tiles are updating: isStyleLoaded() is false
    layers,          \* map.getStyle().layers, bottom to top
    sources,         \* source id -> data
    fog,             \* "style" (as the document sets it) or "themed"
    cam,             \* camera target [pitch, bearing]
    dragRotate,      \* map.dragRotate is enabled
    touchZoomRotate, \* map.touchZoomRotate is enabled
    applied,         \* map.__hackopolyApplied
    snap,            \* map.__originalStyleLayers
    snapCam,         \* map.__originalCamera
    heatOn,          \* map.__heatOn
    heatRef,         \* heatRef.current
    mapStyleAlt,     \* window.__mapStyleAlt
    pending,         \* one-shot 'style.load' listeners, in registration order
    rawCache,        \* __HEAT_RAW_CACHE
    geoCache,        \* __HEAT_GEO_CACHE
    lastZB,          \* __HEAT_LAST_ZBUCKET
    waiting,         \* a __HEAT_GEO_LOADING.then continuation holds this map
    heatLoading,     \* __HEAT_GEO_LOADING: pending, or what it settled with
    fetches,         \* calls of fetch(.../heatmap) since the module was evaluated
    resp,            \* what the network answered to the fetch
    zoom,            \* map.getZoom(), in tenths
    zoomAnim,        \* a zoomTo animation is running ('zoomend' not yet fired)
    fitReq,          \* the last fitBounds call of draw-routes
    routeMarkers,    \* positions of the route-end markers attached to the map
    routeEndMarker,  \* map.__routeEndMarker: index into routeMarkers, 0 if unset
    drawn,           \* detail of the draw-routes event handled last
    hackClass,       \* the map container carries the class 'hackopoly'
    styleTag,        \* the document holds <style id="hackopoly-style">
    dup,             \* addSource/addLayer was asked for an id that exists
    ev,              \* the handler that ran last and what it did
    pre,             \* live style, fog and camera when the theme was switched on
                     \* with no snapshot left over, until it is switched off
    replaced         \* custom ids and heat flag when setStyle last replaced the style

vars == <<doc, mounted, listeners, orphan, destinationMarker, picked, loaded,
          loadFired, busy, layers, sources, fog, cam,
          dragRotate, touchZoomRotate, applied, snap, snapCam, heatOn, heatRef,
          mapStyleAlt, pending, rawCache, geoCache, lastZB, waiting,
          heatLoading, fetches, resp, zoom, zoomAnim, fitReq, routeMarkers,
          routeEndMarker, drawn, hackClass, styleTag, dup, ev, pre, replaced>>

NoSnap == [has |-> FALSE, layers |-> <<>>]
NoCam == [has |-> FALSE, pitch |-> 0, bearing |-> 0]
North == [pitch |-> 0, bearing |-> 0]
ThemeCam == [pitch |-> 60, bearing |-> -20]
UserCam == [pitch |-> 30, bearing |-> 45]

\* what a handler works on: the map surface, the flags kept on it and the
\* module-level heat caches; `threw' is an exception in flight, `fellBack'
\* that the catch block of removeHackopolyTheme ran, `reloaded' that
\* setStyle was called, `samples' the calls of buildHeatGeoJSON so far
World ==
    [doc |-> doc, loaded |-> loaded, busy |-> busy, layers |-> layers,
     sources |-> sources, fog |-> fog, cam |-> cam, dragRotate |-> dragRotate,
     touchZoomRotate |-> touchZoomRotate, applied |-> applied, snap |-> snap,
     snapCam |-> snapCam, heatOn |-> heatOn, pending |-> pending,
     rawCache |-> rawCache, geoCache |-> geoCache, lastZB |-> lastZB,
     waiting |-> waiting, heatLoading |-> heatLoading, fetches |-> fetches,
     resp |-> resp, zoom |-> zoom, fitReq |-> fitReq,
     routeMarkers |-> routeMarkers, routeEndMarker |-> routeEndMarker,
     hackClass |-> hackClass,
     styleTag |-> styleTag, dup |-> dup, replaced |-> replaced,
     threw |-> FALSE, fellBack |-> FALSE, reloaded |-> FALSE, samples |-> 0,
     bad |-> "", destinationMarker |-> destinationMarker]

Throw(w) == [w EXCEPT !.threw = TRUE]
Caught(w) == [w EXCEPT !.threw = FALSE]

\* a value is computed once and then used, as a JavaScript argument or
\* local is
Bind(v, Op(_)) == CHOOSE y \in {Op(x) : x \in {v}} : TRUE

\* the next statement runs unless an exception is in flight
Then(v, Op(_)) == Bind(v, LAMBDA x : IF x.threw THEN x ELSE Op(x))

\* ------------------------------------------------------------ map surface
getLayer(w, id) == \E i \in 1..Len(w.layers) : w.layers[i].id = id

getSource(w, id) == id \in DOMAIN w.sources

isStyleLoaded(w) == w.loaded /\ ~w.busy

\* every style mutation throws 'Style is not done loading' before the load
addSource(w, id, data) ==
    IF ~w.loaded THEN Throw(w)
    ELSE IF getSource(w, id) THEN [w EXCEPT !.threw = TRUE, !.dup = TRUE]
    ELSE [w EXCEPT !.sources = Put(@, id, data)]

\* addLayer called without the id of the layer to insert before
addLayer_onTop(w, l, beforeId) ==
    IF ~w.loaded THEN Throw(w)
    ELSE IF getLayer(w, l.id) THEN [w EXCEPT !.threw = TRUE, !.dup = TRUE]
    ELSE [w EXCEPT !.layers = Append(@, l)]

addLayer(w, l, beforeId) ==
    IF ~w.loaded THEN Throw(w)
    ELSE IF getLayer(w, l.id) THEN [w EXCEPT !.threw = TRUE, !.dup = TRUE]
    ELSE [w EXCEPT !.layers = InsertBefore(@, l, beforeId)]

removeLayer(w, id) ==
    IF ~w.loaded THEN Throw(w)
    ELSE [w EXCEPT !.layers = Without(@, id)]

moveLayer(w, id, beforeId) ==
    IF ~w.loaded THEN Throw(w)
    ELSE IF ~getLayer(w, id) \/ id = beforeId THEN w
    ELSE LET l == w.layers[IndexOf(w.layers, id)] IN
         [w EXCEPT !.layers = InsertBefore(Without(@, id), l, beforeId)]

setPaintProperty(w, id, k, v) ==
    IF ~w.loaded THEN Throw(w)
    ELSE IF ~getLayer(w, id) THEN w
    ELSE [w EXCEPT !.layers[IndexOf(w.layers, id)].paint = Put(@, k, v)]

setLayoutProperty(w, id, k, v) ==
    IF ~w.loaded THEN Throw(w)
    ELSE IF ~getLayer(w, id) THEN w
    ELSE [w EXCEPT !.layers[IndexOf(w.layers, id)].layout = Put(@, k, v)]

setData(w, id, data) == [w EXCEPT !.sources[id] = data]

\* setStyle drops every layer and source and starts loading the document
setStyle(w) ==
    [w EXCEPT !.loaded = FALSE, !.busy = FALSE, !.layers = <<>>,
              !.sources = NoProps, !.fog = "style", !.reloaded = TRUE,
              !.replaced = [has |-> TRUE,
                            ids |-> {w.layers[i].id : i \in 1..Len(w.layers)}
                                      \cap {HEAT_LAYER_ID, EXTRUSION_ID,
                                            "fastest-line", "safest-line", "weighted-line"},
                            srcs |-> DOMAIN w.sources,
                            heatOn |-> w.heatOn]]

\* firstSymbol without the text-field test
firstSymbol_anySymbol(ls) ==
    LET S == {i \in 1..Len(ls) : ls[i].type = "symbol"} IN
    IF S = {} THEN ""
    ELSE ls[CHOOSE i \in S : \A j \in S : i <= j].id

\* first symbol layer that has a text field; "" when the style has none
firstSymbol(ls) ==
    LET S == {i \in 1..Len(ls) : ls[i].type = "symbol" /\ "text-field" \in DOMAIN ls[i].layout} IN
    IF S = {} THEN ""
    ELSE ls[CHOOSE i \in S : \A j \in S : i <= j].id

\* --------------------------------------------------------------- heat layer
HEAT_PAINT ==
    ("heatmap-radius" :> "radius") @@ ("heatmap-opacity" :> "0.85") @@
    ("heatmap-weight" :> "mag") @@ ("heatmap-intensity" :> "intensity") @@
    ("heatmap-color" :> "gradient")

Visibility(on) == IF on THEN "visible" ELSE "none"

sampleNow(w) ==
    LET geo == buildHeatGeoJSON(w.rawCache.list, w.zoom) IN
    [w EXCEPT !.geoCache = geo, !.lastZB = zoomBucket(w.zoom),
              !.sources[HEAT_SOURCE_ID] = geo, !.samples = @ + 1]

\* lines 854-863 starting a second fetch instead of chaining on the first
awaitLoad_refetch(w) == [w EXCEPT !.waiting = TRUE, !.fetches = @ + 1]

\* lines 854-863: the continuation is chained on the one promise
awaitLoad(w) == [w EXCEPT !.waiting = TRUE]

\* ensureHeatSource that adds the empty source and leaves it empty
ensureHeatSource_emptyOnly(w) ==
    IF getSource(w, HEAT_SOURCE_ID) THEN w
    ELSE addSource(w, HEAT_SOURCE_ID, EmptyData)

\* ensureHeatSource without the existence check of line 837
ensureHeatSource_noCheck(w) ==
    Then(addSource(w, HEAT_SOURCE_ID, EmptyData),
         LAMBDA a : IF ~a.rawCache.null THEN sampleNow(a)
                    ELSE awaitLoad(a))

ensureHeatSource(w) ==
    IF getSource(w, HEAT_SOURCE_ID) THEN w
    ELSE Then(addSource(w, HEAT_SOURCE_ID, EmptyData),
              LAMBDA a : IF ~a.rawCache.null THEN sampleNow(a)
                         ELSE awaitLoad(a))

\* props.forEach(([k, v]) => { try { map.setPaintProperty(id, k, v) } catch {} })
\* on a layer of a loaded style: every key of props the surface accepts is
\* written (w.bad names the property it rejects in this call, "" when it
\* rejects none), the other keys of the layer keep their value
setPaintAll(w, id, props) ==
    IF ~w.loaded \/ ~getLayer(w, id) THEN w
    ELSE [w EXCEPT !.layers[IndexOf(w.layers, id)].paint = Accepted(props, w.bad) @@ @]

setLayoutAll(w, id, props) ==
    IF ~w.loaded \/ ~getLayer(w, id) THEN w
    ELSE [w EXCEPT !.layers[IndexOf(w.layers, id)].layout = props @@ @]

\* heatLayerUpsert that leaves a layer it finds as it is
heatLayerUpsert_addOnly(w, visible) ==
    IF ~getLayer(w, HEAT_LAYER_ID)
    THEN addLayer(w, Layer(HEAT_LAYER_ID, "heatmap", HEAT_PAINT,
                           ("visibility" :> Visibility(visible))), "")
    ELSE w

\* lines 869-887: the layer is added, or its paint and visibility rewritten
heatLayerUpsert(w, visible) ==
    IF ~getLayer(w, HEAT_LAYER_ID)
    THEN addLayer(w, Layer(HEAT_LAYER_ID, "heatmap", HEAT_PAINT,
                           ("visibility" :> Visibility(visible))), "")
    ELSE Bind(setPaintAll(w, HEAT_LAYER_ID, HEAT_PAINT),
              LAMBDA p : setLayoutProperty(p, HEAT_LAYER_ID, "visibility",
                                           Visibility(visible)))

\* lines 889-897: below the first label layer; a moveLayer that throws is caught
heatLayerOrder(w) ==
    IF ~w.loaded THEN Throw(w)
    ELSE IF firstSymbol(w.layers) # ""
    THEN Caught(moveLayer(w, HEAT_LAYER_ID, firstSymbol(w.layers)))
    ELSE w

upsertHeatLayer(w, visible) ==
    Then(Then(ensureHeatSource(w), LAMBDA a : heatLayerUpsert(a, visible)),
         heatLayerOrder)

\* resampleHeatIfNeeded without the bucket test of line 904
resampleHeatIfNeeded_everyTick(w) ==
    IF ~getSource(w, HEAT_SOURCE_ID) \/ w.rawCache.null THEN w
    ELSE sampleNow(w)

resampleHeatIfNeeded(w) ==
    IF ~getSource(w, HEAT_SOURCE_ID) \/ w.rawCache.null THEN w
    ELSE IF zoomBucket(w.zoom) = w.lastZB /\ w.geoCache # NoGeo THEN w
    ELSE sampleNow(w)

RouteLayer(name) ==
    Layer(name \o "-line", "line",
          ("line-width" :> "5") @@ ("line-opacity" :> "0.9"),
          ("line-cap" :> "round") @@ ("line-join" :> "round"))

\* lines 922-933 for one route name
recreateRoute(w, name) ==
    Then(IF ~getSource(w, name \o "-src")
         THEN addSource(w, name \o "-src", EmptyData) ELSE w,
         LAMBDA a : IF ~getLayer(a, name \o "-line")
                    THEN addLayer(a, RouteLayer(name), "") ELSE a)

RECURSIVE recreateRoutes(_, _)
recreateRoutes(w, i) ==
    IF i > Len(RouteNames) \/ w.threw THEN w
    ELSE Bind(recreateRoute(w, RouteNames[i]),
              LAMBDA b : recreateRoutes(b, i + 1))

\* recreateCustomLayers that rebuilds the heat layer only
recreateCustomLayers_heatOnly(w, on) == upsertHeatLayer(w, on)

recreateCustomLayers(w, on) ==
    Then(upsertHeatLayer(w, on), LAMBDA a : recreateRoutes(a, 1))


\* -------------------------------------------------------------------- theme
colors ==
    [background |-> "#d5f4e6", water |-> "#7ec8e3", park |-> "#7fc97f",
     parkOutline |-> "#2d5016", building |-> "#f4e8d0",
     buildingOutline |-> "#D62828", road |-> "#555555", text |-> "#000000",
     textHalo |-> "#ffffff", font |-> "DIN Pro Bold"]

ExtrusionLayer ==
    Layer(EXTRUSION_ID, "fill-extrusion",
          ("fill-extrusion-color" :> "byHeight") @@ ("fill-extrusion-opacity" :> "1.0") @@
          ("fill-extrusion-height" :> "height") @@ ("fill-extrusion-base" :> "min_height"),
          NoProps)

\* one guarded mutation of a layer inside the try block of the loop
PaintIf(l, cond, k, v) == IF cond THEN [l EXCEPT !.paint = Put(@, k, v)] ELSE l

LayoutIf(l, cond, k, v) == IF cond THEN [l EXCEPT !.layout = Put(@, k, v)] ELSE l

\* lines 990-1011: the conditional mutations of one layer in source order,
\* as <<condition, kind, property, value>>
themeSteps(l) ==
    LET isPark == IdHasAny(l.id, {"park", "landuse", "pitch", "grass"}) /\ l.type = "fill"
        isBld == IdHas(l.id, "building") /\ l.type = "fill"
        isRoad == IdHasAny(l.id, {"road", "street", "highway", "tunnel", "bridge"})
                    /\ l.type = "line"
        isSym == l.type = "symbol"
    IN << <<l.type = "background", "paint", "background-color", colors.background>>,
          <<IdHas(l.id, "water") /\ l.type = "fill", "paint", "fill-color", colors.water>>,
          <<isPark, "paint", "fill-color", colors.park>>,
          <<isPark, "paint", "fill-outline-color", colors.parkOutline>>,
          <<isBld, "paint", "fill-color", colors.building>>,
          <<isBld, "paint", "fill-outline-color", colors.buildingOutline>>,
          <<isRoad, "paint", "line-color", colors.road>>,
          <<isSym, "paint", "text-color", colors.text>>,
          <<isSym, "paint", "text-halo-color", colors.textHalo>>,
          <<isSym, "layout", "text-font", colors.font>> >>

\* the try block of the loop (line 990): the mutations run in order; the
\* first one the surface rejects throws into the catch of line 1010, which
\* ends the block, so the mutations after it are not made
RECURSIVE tryTheme(_, _, _)
tryTheme(l, steps, bad) ==
    IF steps = <<>> THEN l
    ELSE LET st == Head(steps) IN
         IF st[1] /\ st[3] = bad THEN l
         ELSE tryTheme(IF st[2] = "paint" THEN PaintIf(l, st[1], st[3], st[4])
                       ELSE LayoutIf(l, st[1], st[3], st[4]),
                       Tail(steps), bad)

\* the repaint rules of patchTheme applied to one layer of the style
themeLayer(l, bad) == tryTheme(l, themeSteps(l), bad)

\* layers.filter(l => /sky|fog/i.test(l.id)): visibility none
\* (lines 968-974: each in a try block of its own)
hideSkyFog(l, bad) ==
    LayoutIf(l, IdHasAny(l.id, {"sky", "fog"}) /\ bad # "visibility", "visibility", "none")

\* lines 961-1012: fog, sky layers, camera, rotate controls, the layer loop
repaint(w) ==
    [w EXCEPT !.fog = "themed",
              !.cam = ThemeCam, !.dragRotate = TRUE, !.touchZoomRotate = TRUE,
              !.layers = [i \in 1..Len(w.layers) |->
                             Bind(hideSkyFog(w.layers[i], w.bad),
                                  LAMBDA l : themeLayer(l, w.bad))]]

\* patchTheme whose final pass shows the heat layer whatever the flag says
patchTheme_showHeat(w) ==
    IF ~w.loaded THEN Throw(w)
    ELSE Then(Bind(repaint(w),
                   LAMBDA d : IF ~getLayer(d, EXTRUSION_ID)
                              THEN addLayer(d, ExtrusionLayer, firstSymbol(w.layers))
                              ELSE d),
              LAMBDA e : upsertHeatLayer(e, TRUE))

patchTheme(w) ==
    IF ~w.loaded THEN Throw(w)
    ELSE Then(Bind(repaint(w),
                   LAMBDA d : IF ~getLayer(d, EXTRUSION_ID)
                              THEN addLayer(d, ExtrusionLayer, firstSymbol(w.layers))
                              ELSE d),
              LAMBDA e : upsertHeatLayer(e, e.heatOn))

\* captureSnapshot without the `if (!map.__originalStyleLayers)' guards
captureSnapshot_always(w) ==
    IF ~w.loaded THEN Throw(w)
    ELSE [w EXCEPT !.snap = [has |-> TRUE, layers |-> w.layers],
                   !.snapCam = [has |-> TRUE, pitch |-> w.cam.pitch,
                                bearing |-> w.cam.bearing]]

\* lines 943-948: the snapshot of the layers and of the camera, each taken
\* only when none is held; getStyle() throws while the style is loading
captureSnapshot(w) ==
    Then(IF w.snap.has THEN w
         ELSE IF ~w.loaded THEN Throw(w)
         ELSE [w EXCEPT !.snap = [has |-> TRUE, layers |-> w.layers]],
         LAMBDA a : IF a.snapCam.has THEN a
                    ELSE [a EXCEPT !.snapCam = [has |-> TRUE, pitch |-> a.cam.pitch,
                                                bearing |-> a.cam.bearing]])

\* lines 1036-1037
patchOrDefer(w) ==
    IF isStyleLoaded(w) THEN patchTheme(w)
    ELSE [w EXCEPT !.pending = Append(@, "patchTheme")]

\* lines 1039-1045
addMarkers(w) == [w EXCEPT !.hackClass = TRUE, !.styleTag = TRUE]

\* lines 941-1048, after the guard; the catch block only logs
applyTheme(w) ==
    Caught(Then(Then(Bind([w EXCEPT !.applied = TRUE], captureSnapshot),
                     patchOrDefer),
                addMarkers))

\* applyHackopolyTheme without the applied guard of line 940
applyHackopolyTheme_noGuard(w) == applyTheme(w)

applyHackopolyTheme(w) ==
    IF w.applied THEN w ELSE applyTheme(w)

\* restoreLayer that writes back the paint values only
restoreLayer_paintOnly(l, orig, bad) ==
    LET j == IndexOf(orig, l.id) IN
    IF j = 0 THEN l ELSE [l EXCEPT !.paint = Accepted(orig[j].paint, bad) @@ @]

\* restoreLayer putting the recorded paint and layout in place of the live
\* ones, which drops the keys the snapshot does not record
restoreLayer_replace(l, orig, bad) ==
    LET j == IndexOf(orig, l.id) IN
    IF j = 0 THEN l
    ELSE [l EXCEPT !.paint = orig[j].paint, !.layout = orig[j].layout]

\* currentLayers.forEach: a layer the snapshot knows gets every recorded
\* paint and layout value written back, each in a try block of its own
\* (lines 1071-1085); nothing else is written
restoreLayer(l, orig, bad) ==
    LET j == IndexOf(orig, l.id) IN
    IF j = 0 THEN l
    ELSE [l EXCEPT !.paint = Accepted(orig[j].paint, bad) @@ @,
                   !.layout = Accepted(orig[j].layout, bad) @@ @]

\* surface calls of removeHackopolyTheme that no try block of their own
\* guards; `fail' names the one that throws in this call ("none": none does)
FailPoints == {"none", "removeLayer", "flyTo", "setLayoutProperty"}

\* step 1 (line 1056)
removeExtrusion(w, fail) ==
    IF ~getLayer(w, EXTRUSION_ID) THEN w
    ELSE IF fail = "removeLayer" THEN Throw(w)
    ELSE removeLayer(w, EXTRUSION_ID)

\* step 2 (lines 1059-1090)
restoreStyle(w) ==
    IF ~w.snap.has THEN w
    ELSE IF ~w.loaded THEN Throw(w)
    ELSE [w EXCEPT !.layers = [i \in 1..Len(w.layers) |->
                                  restoreLayer(w.layers[i], w.snap.layers, w.bad)],
                   !.snap = NoSnap]

\* step 3 (lines 1093-1097)
restoreCamera(w, fail) ==
    IF ~w.snapCam.has THEN w
    ELSE IF fail = "flyTo" THEN Throw(w)
    ELSE [w EXCEPT !.cam = [pitch |-> w.snapCam.pitch, bearing |-> w.snapCam.bearing],
                   !.snapCam = NoCam]

\* lines 1100-1101
disableRotate(w) == [w EXCEPT !.dragRotate = FALSE, !.touchZoomRotate = FALSE]

\* reassertHeat that shows the heat layer whatever the flag says
reassertHeat_shown(w, fail) ==
    IF fail = "setLayoutProperty" /\ getLayer(w, HEAT_LAYER_ID) /\ w.loaded
    THEN Throw(w)
    ELSE upsertHeatLayer(w, TRUE)

\* step 4 (line 1104); the throwing call is the setLayoutProperty of line 886
reassertHeat(w, fail) ==
    IF fail = "setLayoutProperty" /\ getLayer(w, HEAT_LAYER_ID) /\ w.loaded
    THEN Throw(w)
    ELSE upsertHeatLayer(w, w.heatOn)

\* lines 1107-1110
removeMarkers(w) == [w EXCEPT !.hackClass = FALSE, !.styleTag = FALSE]

\* restoreFallback with the layer-count test turned around
restoreFallback_fewLayers(w) ==
    IF ~w.loaded THEN [w EXCEPT !.fellBack = TRUE]
    ELSE IF Len(w.layers) + w.doc.pad < FallbackMinLayers
    THEN [setStyle(w) EXCEPT !.fellBack = TRUE, !.threw = FALSE,
                             !.pending = Append(@, "upsertHeatLayer")]
    ELSE [w EXCEPT !.fellBack = TRUE, !.threw = FALSE]

\* catch (err), lines 1111-1118; getStyle() itself throws while loading
restoreFallback(w) ==
    IF ~w.loaded THEN [w EXCEPT !.fellBack = TRUE]
    ELSE IF Len(w.layers) + w.doc.pad > FallbackMinLayers
    THEN [setStyle(w) EXCEPT !.fellBack = TRUE, !.threw = FALSE,
                             !.pending = Append(@, "upsertHeatLayer")]
    ELSE [w EXCEPT !.fellBack = TRUE, !.threw = FALSE]

\* the try block, lines 1052-1110
restoreSteps(w, fail) ==
    Then(Then(Then(Then(Then(Bind([w EXCEPT !.applied = FALSE],
                                  LAMBDA a : removeExtrusion(a, fail)),
                             restoreStyle),
                        LAMBDA c : restoreCamera(c, fail)),
                   disableRotate),
              LAMBDA e : reassertHeat(e, fail)),
         removeMarkers)

removeHackopolyTheme(w, fail) ==
    Bind(restoreSteps(w, fail),
         LAMBDA g : IF g.threw THEN restoreFallback(g) ELSE g)

\* ----------------------------------------------------------------- handlers
onInitialLoad(w, ref, alt) ==
    Bind(recreateCustomLayers(w, ref),
         LAMBDA a : IF a.threw \/ ~alt THEN a ELSE applyHackopolyTheme(a))

\* onToggleStyle that activates whatever the flag says
onToggleStyle_alwaysApply(w, ref, alt, fail) ==
    Bind([w EXCEPT !.heatOn = ref], applyHackopolyTheme)

onToggleStyle(w, ref, alt, fail) ==
    Bind([w EXCEPT !.heatOn = ref],
         LAMBDA a : IF alt THEN applyHackopolyTheme(a)
                    ELSE removeHackopolyTheme(a, fail))

\* onToggleHeat sampling on every toggle, without the tests of lines 1261
\* and 904
onToggleHeat_alwaysSample(w, ref) ==
    Bind(Bind([w EXCEPT !.heatOn = ~ref], LAMBDA s : upsertHeatLayer(s, ~ref)),
         LAMBDA a : IF a.threw \/ a.rawCache.null THEN a ELSE sampleNow(a))

onToggleHeat(w, ref) ==
    Bind(Bind([w EXCEPT !.heatOn = ~ref], LAMBDA s : upsertHeatLayer(s, ~ref)),
         LAMBDA a : IF a.threw \/ ref THEN a ELSE resampleHeatIfNeeded(a))

onZoomIn(w) ==
    [w EXCEPT !.zoom = IF @ + ZoomStep < ZoomMax THEN @ + ZoomStep ELSE ZoomMax]

onZoomOut(w) ==
    [w EXCEPT !.zoom = IF @ - ZoomStep > ZoomMin THEN @ - ZoomStep ELSE ZoomMin]

\* a zoomend handler that leaves the heat data alone
onZoomEnd_idle(w) == w

onZoomEnd(w) == resampleHeatIfNeeded(w)

\* the one-shot listeners of 'style.load', in registration order
RECURSIVE runPending(_, _, _)
runPending(w, ps, i) ==
    IF i > Len(ps) \/ w.threw THEN w
    ELSE Bind(IF ps[i] = "patchTheme" THEN patchTheme(w)
              ELSE upsertHeatLayer(w, w.heatOn),
              LAMBDA n : runPending(n, ps, i + 1))

\* the listeners of 'style.load': the permanent one of the init effect, then
\* the one-shot ones
onStyleLoad(w) ==
    Bind(Bind([w EXCEPT !.loaded = TRUE, !.layers = w.doc.layers, !.pending = <<>>],
              LAMBDA a : recreateCustomLayers(a, a.heatOn)),
         LAMBDA b : runPending(b, w.pending, 1))

\* continuation of __HEAT_GEO_LOADING.then registered by ensureHeatSource
onHeatLoaded(w) ==
    IF ~getSource(w, HEAT_SOURCE_ID) THEN w ELSE sampleNow(w)

\* the same continuation when its map has been removed since: map.remove()
\* has dropped the style, so map.getSource throws inside the try block of
\* line 855 and the catch of line 862 ends the continuation
onHeatLoadedRemoved(w) == w

\* ------------------------------------------------------------------- routes
\* GeoJSON values of a draw-routes event; vertices are [lng, lat] in
\* hundredths of a degree.  NullGeo is a missing (undefined or null) value.
NullGeo == [type |-> "null"]

LineString(coords) == [type |-> "LineString", coordinates |-> coords]

\* the value undefined where a list of vertices is expected: a geometry
\* {type: 'LineString'} without coordinates is LineString(Undefined)
Undefined == <<<<>>>>

MultiLineString(lines) == [type |-> "MultiLineString", coordinates |-> lines]

PointGeo(v) == [type |-> "Point", coordinates |-> v]

Feature(g) == [type |-> "Feature", geometry |-> g]

Detail(fastest, safest, weighted, active) ==
    [fastest |-> fastest, safest |-> safest, weighted |-> weighted,
     active |-> active]

NoDrawn == [has |-> FALSE, detail |-> Detail(NullGeo, NullGeo, NullGeo, "")]

NoFit == [has |-> FALSE, box |-> <<>>, padding |-> 0, maxZoom |-> 0, duration |-> 0]

\* the loop over geo.features of lines 1290-1297
RECURSIVE collectLines(_, _)
collectLines(features, k) ==
    IF k > Len(features) THEN <<>>
    ELSE LET gg == features[k].geometry IN
         (IF gg.type = "LineString" THEN <<gg.coordinates>>
          ELSE IF gg.type = "MultiLineString" THEN gg.coordinates
          ELSE <<>>) \o collectLines(features, k + 1)

getLineCoords(geo) ==
    IF geo.type = "null" THEN <<>>
    ELSE LET g == IF geo.type = "Feature" THEN geo.geometry ELSE geo IN
         IF g.type = "null" THEN <<>>
         ELSE IF g.type = "LineString" THEN <<g.coordinates>>
         ELSE IF g.type = "MultiLineString" THEN g.coordinates
         ELSE IF geo.type = "FeatureCollection" THEN collectLines(geo.features, 1)
         ELSE <<>>

\* computeBounds over the first line only
computeBounds_firstLine(lines) ==
    LET V == {lines[1][j] : j \in 1..Len(lines[1])} IN
    IF V = {} THEN <<>>
    ELSE <<<<CHOOSE x \in {v[1] : v \in V} : \A y \in {v[1] : v \in V} : x <= y,
             CHOOSE x \in {v[2] : v \in V} : \A y \in {v[2] : v \in V} : x <= y>>,
           <<CHOOSE x \in {v[1] : v \in V} : \A y \in {v[1] : v \in V} : x >= y,
             CHOOSE x \in {v[2] : v \in V} : \A y \in {v[2] : v \in V} : x >= y>>>>

\* [[w, s], [e, n]], the running minima and maxima over every vertex of
\* every line; <<>> is null
computeBounds(lines) ==
    LET V == UNION {{lines[i][j] : j \in 1..Len(lines[i])} : i \in 1..Len(lines)} IN
    IF V = {} THEN <<>>
    ELSE <<<<CHOOSE x \in {v[1] : v \in V} : \A y \in {v[1] : v \in V} : x <= y,
             CHOOSE x \in {v[2] : v \in V} : \A y \in {v[2] : v \in V} : x <= y>>,
           <<CHOOSE x \in {v[1] : v \in V} : \A y \in {v[1] : v \in V} : x >= y,
             CHOOSE x \in {v[2] : v \in V} : \A y \in {v[2] : v \in V} : x >= y>>>>

\* last vertex of the last line that has one; <<>> is null
getLineEnd(lines) ==
    LET N == {i \in 1..Len(lines) : Len(lines[i]) > 0} IN
    IF N = {} THEN <<>>
    ELSE LET i == CHOOSE k \in N : \A j \in N : j <= k IN
         lines[i][Len(lines[i])]

\* an update that clears the source of a route that is not given
upd_clearAbsent(w, name, data) ==
    IF ~getSource(w, name \o "-src") THEN w
    ELSE IF data.type # "null" THEN setData(w, name \o "-src", data)
    ELSE setData(w, name \o "-src", FeatureCollection(<<>>))

\* upd(n, data), lines 1271-1278
upd(w, name, data) ==
    IF getSource(w, name \o "-src") /\ data.type # "null"
    THEN setData(w, name \o "-src", data)
    ELSE w

\* lines 1330: the request is recorded, the camera flight is not followed
fitBounds(w, b) ==
    [w EXCEPT !.fitReq = [has |-> TRUE, box |-> b, padding |-> 60,
                          maxZoom |-> 160, duration |-> 500]]

\* a new marker for every route
placeEndMarker_alwaysNew(w, end) ==
    [w EXCEPT !.routeMarkers = Append(@, end),
              !.routeEndMarker = Len(w.routeMarkers) + 1]

\* lines 1336-1340
placeEndMarker(w, end) ==
    IF w.routeEndMarker = 0
    THEN [w EXCEPT !.routeMarkers = Append(@, end),
                   !.routeEndMarker = Len(w.routeMarkers) + 1]
    ELSE [w EXCEPT !.routeMarkers[w.routeEndMarker] = end]

chosenName(d) ==
    IF d.active # "" THEN d.active
    ELSE IF d.weighted.type # "null" THEN "weighted"
    ELSE IF d.safest.type # "null" THEN "safest"
    ELSE "fastest"

\* the route picked by presence alone, whatever `active' says
chosenRoute_firstPresent(d) ==
    IF d.weighted.type # "null" THEN d.weighted
    ELSE IF d.safest.type # "null" THEN d.safest
    ELSE d.fastest

chosenRoute(d) ==
    IF chosenName(d) = "weighted" THEN d.weighted
    ELSE IF chosenName(d) = "safest" THEN d.safest
    ELSE d.fastest

\* lines 1324-1342; `for (const [lng, lat] of line)' in computeBounds (line
\* 1303) throws a TypeError when a line is undefined, and nothing catches it
fitAndMark(w, lines) ==
    IF Len(lines) = 0 THEN w
    ELSE IF \E i \in 1..Len(lines) : lines[i] = Undefined
    THEN Throw(w)
    ELSE Bind(IF computeBounds(lines) # <<>>
              THEN fitBounds(w, computeBounds(lines)) ELSE w,
              LAMBDA a : IF getLineEnd(lines) # <<>>
                         THEN placeEndMarker(a, getLineEnd(lines)) ELSE a)

onDrawRoutes(w, d) ==
    Bind(Bind(Bind(upd(w, "fastest", d.fastest),
                   LAMBDA a : upd(a, "safest", d.safest)),
              LAMBDA b : upd(b, "weighted", d.weighted)),
         LAMBDA c : fitAndMark(c, getLineCoords(chosenRoute(d))))

\* ------------------------------------------------------------ route request
\* Sidebar.jsx: positions are [lon, lat] in hundredths of a degree, backend
\* paths are lists of [lat, lon]
FALLBACK_CENTER == <<-7399, 4076>>

\* the suggestions that can be picked (sug.coords)
Destinations == {<<-7397, 4078>>, <<-7395, 4072>>}

\* a member of the response object: an array, or absent (undefined)
Path(items) == [defined |-> TRUE, items |-> items]
NoPath == [defined |-> FALSE, items |-> <<>>]

\* what res.json() yields: null, or an object with whatever members it has
Routes(shortest, safest, weighted, active) ==
    [null |-> FALSE, shortest_path |-> shortest, safest_path |-> safest,
     weighted_path |-> weighted, active |-> active]
NullRoutes == [Routes(NoPath, NoPath, NoPath, "") EXCEPT !.null = TRUE]

\* the answer of POST /route: whether the fetch resolves, res.ok, whether
\* the body parses as JSON, and the parsed body
RouteAnswer(arrives, ok, json, body) ==
    [arrives |-> arrives, ok |-> ok, json |-> json, body |-> body]

BackendPathA == <<<<4076, -7399>>, <<4079, -7398>>, <<4078, -7397>>>>
BackendPathB == <<<<4076, -7399>>, <<4078, -7397>>>>

\* routes with the safest active; a transport failure; an HTML error page;
\* an error status with a JSON body ({"detail": ...}); routes without
\* `active', one of them a single point; the JSON value null; routes without
\* `active' and without the weighted path
RouteAnswers ==
    {RouteAnswer(TRUE, TRUE, TRUE,
                 Routes(Path(BackendPathB), Path(BackendPathA), Path(BackendPathA), "safest")),
     RouteAnswer(FALSE, FALSE, FALSE, NullRoutes),
     RouteAnswer(TRUE, FALSE, FALSE, NullRoutes),
     RouteAnswer(TRUE, FALSE, TRUE, Routes(NoPath, NoPath, NoPath, "")),
     RouteAnswer(TRUE, TRUE, TRUE,
                 Routes(Path(<<<<4076, -7399>>>>), NoPath, Path(BackendPathB), "")),
     RouteAnswer(TRUE, TRUE, TRUE, NullRoutes),
     RouteAnswer(TRUE, TRUE, TRUE,
                 Routes(Path(BackendPathA), Path(BackendPathB), NoPath, ""))}

NoPick ==
    [has |-> FALSE, backendUrl |-> FALSE, dest |-> <<>>,
     answer |-> RouteAnswer(FALSE, FALSE, FALSE, NullRoutes)]

\* Sidebar.jsx lines 319-329: the try block; res.ok is not looked at
requestRoutes(backendUrl, answer) ==
    IF ~backendUrl THEN [threw |-> TRUE, routes |-> NullRoutes]
    ELSE IF ~answer.arrives \/ ~answer.json THEN [threw |-> TRUE, routes |-> NullRoutes]
    ELSE [threw |-> FALSE, routes |-> answer.body]

\* lines 333-337; the two sums are even for the positions above
mockPath(origin, dest) ==
    << <<origin[2], origin[1]>>,
       <<(origin[2] + dest[2]) \div 2, (origin[1] + dest[1]) \div 2>>,
       <<dest[2], dest[1]>> >>

\* lines 330-340: the catch block replaces the routes by the mock path
routesOrMock(backendUrl, answer, from, to) ==
    LET q == requestRoutes(backendUrl, answer) IN
    IF q.threw
    THEN Routes(Path(mockPath(from, to)), Path(mockPath(from, to)),
                Path(mockPath(from, to)), "")
    ELSE q.routes

\* the pairs taken over as they come, [lat, lon]
pathArrayToGeoJSON_asGiven(path) ==
    IF ~path.defined \/ Len(path.items) < 2 THEN NullGeo
    ELSE Feature(LineString(path.items))

\* App.jsx lines 655-668, behind the `path ? ... : undefined' of line 1153
pathArrayToGeoJSON(path) ==
    IF ~path.defined \/ Len(path.items) < 2 THEN NullGeo
    ELSE Feature(LineString([i \in 1..Len(path.items) |->
                                <<path.items[i][2], path.items[i][1]>>]))

\* window.__drawRoutesFromBackend (lines 1146-1169): the detail it dispatches
drawRoutesFromBackend(data) ==
    Detail(pathArrayToGeoJSON(data.shortest_path), pathArrayToGeoJSON(data.safest_path),
           pathArrayToGeoJSON(data.weighted_path),
           IF data.active = "" THEN "weighted" ELSE data.active)

\* lines 1410-1423: the marker is created at, or moved to, the position
onSetDestination(w, lngLat) == [w EXCEPT !.destinationMarker = lngLat]

\* lines 1346-1374: LngLatBounds of the two points, fitBounds in a try block
onFitRoutePoints(w, origin, dest) ==
    [w EXCEPT !.fitReq =
        [has |-> TRUE,
         box |-> << <<Min(origin[1], dest[1]), Min(origin[2], dest[2])>>,
                    <<Max(origin[1], dest[1]), Max(origin[2], dest[2])>> >>,
         padding |-> 80, maxZoom |-> 140, duration |-> 1000]]

\* pickSuggestion (Sidebar.jsx 289-347) as the map sees it: the two events
\* dispatched first, then, when the request has settled, the routes handed
\* to window.__drawRoutesFromBackend, which exists while MapView is mounted
pickSuggestion(w, ls, exists, backendUrl, answer, dest) ==
    LET routes == routesOrMock(backendUrl, answer, FALLBACK_CENTER, dest) IN
    Bind(Bind(IF "set-destination" \in ls THEN onSetDestination(w, dest) ELSE w,
              LAMBDA a : IF "fit-route-points" \in ls
                         THEN onFitRoutePoints(a, FALLBACK_CENTER, dest) ELSE a),
         LAMBDA b : IF exists /\ ~routes.null /\ "draw-routes" \in ls
                    THEN onDrawRoutes(b, drawRoutesFromBackend(routes)) ELSE b)

\* ------------------------------------------------------------------ actions
Event(op, theme, was, r) ==
    [op |-> op, theme |-> theme, wasApplied |-> was, threw |-> r.threw,
     fellBack |-> r.fellBack, reloaded |-> r.reloaded, samples |-> 0,
     heatWas |-> FALSE, visWas |-> "", nth |-> 1, bad |-> r.bad, late |-> FALSE]

\* visibility of the heat layer; "absent" when the style has no such layer
HeatVisibility(ls) ==
    IF \E i \in 1..Len(ls) : ls[i].id = HEAT_LAYER_ID
    THEN ls[IndexOf(ls, HEAT_LAYER_ID)].layout["visibility"]
    ELSE "absent"

\* a heat handler ran: how often it sampled, the toggle state and the
\* visibility it started from, and whether the same handler ran just before
HeatEvent(op, r) ==
    [op |-> op, theme |-> "none", wasApplied |-> FALSE, threw |-> r.threw,
     fellBack |-> FALSE, reloaded |-> FALSE, samples |-> r.samples,
     heatWas |-> heatRef, visWas |-> HeatVisibility(layers),
     nth |-> IF ev.op = op THEN 2 ELSE 1, bad |-> "",
     late |-> (op = "heat-loaded" /\ orphan)]

\* the other handlers leave no record
NoEvent ==
    [op |-> "none", theme |-> "none", wasApplied |-> FALSE, threw |-> FALSE,
     fellBack |-> FALSE, reloaded |-> FALSE, samples |-> 0,
     heatWas |-> FALSE, visWas |-> "", nth |-> 1, bad |-> "", late |-> FALSE]

NoPre == [has |-> FALSE, layers |-> <<>>, fog |-> "style", cam |-> North]
NoReplaced == [has |-> FALSE, ids |-> {}, srcs |-> {}, heatOn |-> FALSE]

\* the handler's result becomes the next state
Commit(r) ==
    /\ loaded' = r.loaded /\ busy' = r.busy /\ layers' = r.layers
    /\ sources' = r.sources /\ fog' = r.fog /\ cam' = r.cam
    /\ dragRotate' = r.dragRotate /\ touchZoomRotate' = r.touchZoomRotate
    /\ applied' = r.applied /\ snap' = r.snap /\ snapCam' = r.snapCam
    /\ heatOn' = r.heatOn /\ pending' = r.pending /\ rawCache' = r.rawCache
    /\ geoCache' = r.geoCache /\ lastZB' = r.lastZB /\ waiting' = r.waiting
    /\ heatLoading' = r.heatLoading /\ fetches' = r.fetches /\ resp' = r.resp
    /\ fitReq' = r.fitReq /\ routeMarkers' = r.routeMarkers
    /\ routeEndMarker' = r.routeEndMarker /\ drawn' = NoDrawn
    /\ zoom' = r.zoom /\ hackClass' = r.hackClass /\ styleTag' = r.styleTag
    /\ dup' = r.dup
    /\ doc' = doc
    /\ UNCHANGED <<destinationMarker, picked>>

\* the events MapView listens to on window, each registration carrying the
\* signal of the effect's AbortController (lines 1378-1381, 1424-1428)
CommandEvents ==
    {"toggle-style", "toggle-heat", "draw-routes", "fit-route-points",
     "set-destination", "zoom-in", "zoom-out", "geolocate"}

\* an abort that reaches only the listeners registered first
abort_firstFour(ls) ==
    ls \ {"toggle-style", "draw-routes", "fit-route-points", "set-destination"}

\* ctrl.abort() (line 1430): every listener registered with the signal goes
abort(ls) == ls \ CommandEvents

\* a map just constructed: nothing loaded, interactions disabled (line 1173)
FreshMap ==
    /\ loaded' = FALSE /\ loadFired' = FALSE /\ busy' = FALSE
    /\ layers' = <<>> /\ sources' = NoProps /\ fog' = "style" /\ cam' = North
    /\ dragRotate' = FALSE /\ touchZoomRotate' = FALSE
    /\ applied' = FALSE /\ snap' = NoSnap /\ snapCam' = NoCam
    /\ heatOn' = FALSE /\ heatRef' = FALSE /\ pending' = <<>>
    /\ waiting' = FALSE /\ zoom' = initialZoom /\ zoomAnim' = FALSE
    /\ hackClass' = FALSE /\ pre' = NoPre /\ replaced' = NoReplaced
    /\ fitReq' = NoFit /\ routeMarkers' = <<>> /\ routeEndMarker' = 0
    /\ drawn' = NoDrawn /\ destinationMarker' = <<>>

Init ==
    /\ doc \in StyleDocs
    /\ mounted = TRUE /\ listeners = CommandEvents /\ orphan = FALSE
    /\ loaded = FALSE /\ loadFired = FALSE /\ busy = FALSE
    /\ layers = <<>> /\ sources = NoProps /\ fog = "style" /\ cam = North
    /\ dragRotate = FALSE /\ touchZoomRotate = FALSE
    /\ applied = FALSE /\ snap = NoSnap /\ snapCam = NoCam
    /\ heatOn = FALSE /\ heatRef = FALSE /\ mapStyleAlt = FALSE
    /\ pending = <<>>
    /\ rawCache = RawNull /\ geoCache = NoGeo /\ lastZB = "null"
    /\ heatLoading = Settled("pending", <<>>) /\ fetches = 1 /\ resp = NoResponse
    /\ waiting = FALSE /\ zoom = initialZoom /\ zoomAnim = FALSE
    /\ hackClass = FALSE /\ styleTag = FALSE /\ dup = FALSE
    /\ ev = NoEvent /\ pre = NoPre /\ replaced = NoReplaced
    /\ fitReq = NoFit /\ routeMarkers = <<>> /\ routeEndMarker = 0
    /\ drawn = NoDrawn /\ destinationMarker = <<>> /\ picked = NoPick

\* the cleanups of both effects: the listeners are revoked, the map is
\* removed; a continuation that waits for the heat data keeps the removed map
Unmount ==
    /\ mounted
    /\ mounted' = FALSE
    /\ listeners' = abort(listeners)
    /\ orphan' = (orphan \/ waiting)
    /\ FreshMap
    /\ ev' = NoEvent
    /\ UNCHANGED <<doc, mapStyleAlt, rawCache, geoCache, lastZB, heatLoading,
                   fetches, resp, styleTag, dup, picked>>

\* a new MapView instance: new refs, new map
Mount ==
    /\ ~mounted
    /\ mounted' = TRUE
    /\ listeners' = listeners \cup CommandEvents
    /\ orphan' = orphan
    /\ FreshMap
    /\ ev' = NoEvent
    /\ UNCHANGED <<doc, mapStyleAlt, rawCache, geoCache, lastZB, heatLoading,
                   fetches, resp, styleTag, dup, picked>>

\* the style document arrives: 'style.load'
StyleLoad ==
    /\ mounted /\ ~loaded
    /\ \E r \in {onStyleLoad(World)} :
       /\ Commit(r)
       /\ ev' = Event(IF replaced.has THEN "style.reload" ELSE "style.load",
                      "none", applied, r)
       /\ replaced' = NoReplaced
    /\ UNCHANGED <<mounted, listeners, orphan, loadFired, heatRef, mapStyleAlt,
                   zoomAnim, pre>>

\* the map's 'load' event
Load ==
    /\ mounted /\ loaded /\ ~loadFired
    /\ \E r \in {onInitialLoad(World, heatRef, mapStyleAlt)},
          a \in {recreateCustomLayers(World, heatRef)} :
       /\ Len(r.pending) <= MaxPending
       /\ Commit(r)
       /\ ev' = Event("load", IF mapStyleAlt /\ ~a.threw THEN "activate" ELSE "none", applied, r)
       /\ pre' = IF mapStyleAlt /\ ~a.threw /\ ~applied /\ ~snap.has /\ ~snapCam.has
                 THEN [has |-> TRUE, layers |-> a.layers, fog |-> a.fog, cam |-> a.cam]
                 ELSE pre
       /\ replaced' = r.replaced
    /\ loadFired' = TRUE
    /\ UNCHANGED <<mounted, listeners, orphan, heatRef, mapStyleAlt, zoomAnim>>

\* TopRightControls.switchStyle: flips the flag, then dispatches the event
SwitchStyle(fail) ==
    /\ mapStyleAlt' = ~mapStyleAlt
    /\ IF "toggle-style" \in listeners
       THEN \E r \in {onToggleStyle(World, heatRef, ~mapStyleAlt, fail)} :
            /\ Len(r.pending) <= MaxPending
            /\ Commit(r)
            /\ ev' = Event("toggle-style",
                           IF mapStyleAlt THEN "deactivate" ELSE "activate", applied, r)
            /\ pre' = IF mapStyleAlt THEN NoPre
                      ELSE IF ~applied /\ ~snap.has /\ ~snapCam.has
                      THEN [has |-> TRUE, layers |-> layers, fog |-> fog, cam |-> cam]
                      ELSE pre
            /\ replaced' = r.replaced
            /\ UNCHANGED <<mounted, listeners, orphan, loadFired, heatRef, zoomAnim>>
       ELSE UNCHANGED <<doc, mounted, listeners, orphan, destinationMarker, picked,
                        loaded, loadFired, busy, layers, sources, fog, cam, dragRotate, touchZoomRotate, applied, snap,
                        snapCam, heatOn, heatRef, pending, rawCache, geoCache,
                        lastZB, waiting, heatLoading, fetches, resp, zoom,
                        zoomAnim, fitReq, routeMarkers, routeEndMarker, drawn,
                        hackClass, styleTag, dup, ev, pre, replaced>>

ToggleHeat ==
    /\ "toggle-heat" \in listeners
    /\ \E r \in {onToggleHeat(World, heatRef)} :
       /\ Commit(r)
       /\ ev' = HeatEvent("toggle-heat", r)
    /\ heatRef' = ~heatRef
    /\ UNCHANGED <<mounted, listeners, orphan, loadFired, mapStyleAlt, zoomAnim, pre, replaced>>

ZoomIn ==
    /\ "zoom-in" \in listeners /\ ~zoomAnim /\ zoom + ZoomStep <= initialZoom
    /\ \E r \in {onZoomIn(World)} :
       /\ Commit(r)
       /\ ev' = NoEvent
    /\ zoomAnim' = TRUE
    /\ UNCHANGED <<mounted, listeners, orphan, loadFired, heatRef, mapStyleAlt, pre, replaced>>

ZoomOut ==
    /\ "zoom-out" \in listeners /\ ~zoomAnim
    /\ zoom - ZoomStep >= initialZoom - ZoomSpan * ZoomStep
    /\ \E r \in {onZoomOut(World)} :
       /\ Commit(r)
       /\ ev' = NoEvent
    /\ zoomAnim' = TRUE
    /\ UNCHANGED <<mounted, listeners, orphan, loadFired, heatRef, mapStyleAlt, pre, replaced>>

\* 'zoomend'
ZoomEnd ==
    /\ mounted /\ zoomAnim
    /\ \E r \in {onZoomEnd(World)} :
       /\ Commit(r)
       /\ ev' = HeatEvent("zoomend", r)
    /\ zoomAnim' = FALSE
    /\ UNCHANGED <<mounted, listeners, orphan, loadFired, heatRef, mapStyleAlt, pre, replaced>>

\* the fetch is answered and __HEAT_GEO_LOADING settles: the async body or
\* the catch handler writes __HEAT_RAW_CACHE, then the continuations
\* registered meanwhile run
HeatLoaded(answer) ==
    /\ heatLoading.state = "pending"
    /\ \E r \in {Bind([World EXCEPT !.rawCache = Raw(loadHeat(answer).value),
                                     !.heatLoading = loadHeat(answer),
                                     !.resp = answer, !.waiting = FALSE],
                       LAMBDA a : Bind(IF orphan THEN onHeatLoadedRemoved(a) ELSE a,
                                       LAMBDA b : IF mounted /\ waiting
                                                  THEN onHeatLoaded(b) ELSE b))} :
       /\ Commit(r)
       /\ ev' = HeatEvent("heat-loaded", r)
    /\ orphan' = FALSE
    /\ UNCHANGED <<mounted, listeners, loadFired, heatRef, mapStyleAlt, zoomAnim, pre,
                   replaced>>

\* sources or tiles start / finish updating: isStyleLoaded() goes false / true
TilesBusy ==
    /\ mounted /\ loaded /\ ~busy
    /\ busy' = TRUE
    /\ ev' = NoEvent
    /\ UNCHANGED <<doc, mounted, listeners, orphan, destinationMarker, picked,
                   loaded, loadFired, layers, sources, fog, cam,
                   dragRotate, touchZoomRotate, applied, snap, snapCam, heatOn,
                   heatRef, mapStyleAlt, pending, rawCache, geoCache, lastZB,
                   waiting, heatLoading, fetches, resp, zoom, zoomAnim, fitReq,
                   routeMarkers, routeEndMarker, drawn, hackClass, styleTag,
                   dup, pre, replaced>>

TilesIdle ==
    /\ mounted /\ loaded /\ busy
    /\ busy' = FALSE
    /\ ev' = NoEvent
    /\ UNCHANGED <<doc, mounted, listeners, orphan, destinationMarker, picked,
                   loaded, loadFired, layers, sources, fog, cam,
                   dragRotate, touchZoomRotate, applied, snap, snapCam, heatOn,
                   heatRef, mapStyleAlt, pending, rawCache, geoCache, lastZB,
                   waiting, heatLoading, fetches, resp, zoom, zoomAnim, fitReq,
                   routeMarkers, routeEndMarker, drawn, hackClass, styleTag,
                   dup, pre, replaced>>

\* the user turns the map, possible only while dragRotate is enabled
Rotate ==
    /\ mounted /\ dragRotate /\ cam # UserCam
    /\ cam' = UserCam
    /\ ev' = NoEvent
    /\ UNCHANGED <<doc, mounted, listeners, orphan, destinationMarker, picked,
                   loaded, loadFired, busy, layers, sources, fog,
                   dragRotate, touchZoomRotate, applied, snap, snapCam, heatOn,
                   heatRef, mapStyleAlt, pending, rawCache, geoCache, lastZB,
                   waiting, heatLoading, fetches, resp, zoom, zoomAnim, fitReq,
                   routeMarkers, routeEndMarker, drawn, hackClass, styleTag,
                   dup, pre, replaced>>

\* what happens around the theme switch, without the zoom buttons
Environment ==
    \/ Unmount \/ Mount \/ StyleLoad \/ Load \/ ToggleHeat
    \/ \E answer \in {RespEdges, RespNetwork} : HeatLoaded(answer)
    \/ TilesBusy \/ TilesIdle \/ Rotate

\* the surface behaves as documented
Next == Environment \/ ZoomIn \/ ZoomOut \/ ZoomEnd \/ SwitchStyle("none")

Spec == Init /\ [][Next]_vars

\* one unguarded surface call of removeHackopolyTheme may throw; the zoom
\* handlers, which write nothing but the heat data, are left at rest
NextF == Environment \/ \E fail \in FailPoints : SwitchStyle(fail)

SpecF == Init /\ [][NextF]_vars

\* the heat loader against everything the network can answer: the map is
\* mounted, loaded and toggled around the one fetch
NextL ==
    \/ Unmount \/ Mount \/ StyleLoad \/ Load \/ ToggleHeat
    \/ \E answer \in Responses : HeatLoaded(answer)

SpecL == Init /\ [][NextL]_vars

\* the sampler on its own: __HEAT_RAW_CACHE and the zoom hold its arguments,
\* __HEAT_GEO_CACHE its last result.  The edges: 1112 m and 556 m along a
\* meridian, one of length zero with a risk above 1, 852 m along a parallel
\* with a risk below 0, a list element that lacks a coordinate, one that
\* lacks an endpoint, and one with a longitude that is no number.
EdgePool ==
    {Edge(<<40000, -73000>>, <<40010, -73000>>, 50),
     Edge(<<40020, -73000>>, <<40025, -73000>>, 30),
     Edge(<<40030, -73010>>, <<40030, -73010>>, 150),
     Edge(<<40000, -73020>>, <<40000, -73010>>, -20),
     Edge(<<40000>>, <<40010, -73000>>, 70),
     Edge(<<40000, -73000>>, <<>>, 60),
     Edge(<<40000, NaN>>, <<40010, -73000>>, 40)}

EdgeLists == UNION {[1..n -> EdgePool] : n \in 0..MaxEdges}

\* two zoom levels in each bucket, the thresholds among them
SampleZooms == {50, 99, 100, 119, 120, 139, 140, 149, 150, 159, 160, 180}

InitS ==
    /\ doc = DocSmall
    /\ mounted = FALSE /\ listeners = {} /\ orphan = FALSE
    /\ loaded = FALSE /\ loadFired = FALSE /\ busy = FALSE
    /\ layers = <<>> /\ sources = NoProps /\ fog = "style" /\ cam = North
    /\ dragRotate = FALSE /\ touchZoomRotate = FALSE
    /\ applied = FALSE /\ snap = NoSnap /\ snapCam = NoCam
    /\ heatOn = FALSE /\ heatRef = FALSE /\ mapStyleAlt = FALSE
    /\ pending = <<>>
    /\ \E list \in EdgeLists :
          /\ rawCache = Raw(list)
          /\ heatLoading = Settled("fulfilled", list)
          /\ resp = Response(TRUE, TRUE, TRUE, "application/json", "array", list)
    /\ geoCache = NoGeo /\ lastZB = "null" /\ fetches = 1
    /\ waiting = FALSE /\ zoom \in SampleZooms /\ zoomAnim = FALSE
    /\ hackClass = FALSE /\ styleTag = FALSE /\ dup = FALSE
    /\ ev = NoEvent /\ pre = NoPre /\ replaced = NoReplaced
    /\ fitReq = NoFit /\ routeMarkers = <<>> /\ routeEndMarker = 0
    /\ drawn = NoDrawn /\ destinationMarker = <<>> /\ picked = NoPick

\* lines 906-907 without the map: the sampler is called and its result
\* kept; the record tells whether the result before was made for the same
\* bucket
SampleS ==
    /\ geoCache' = buildHeatGeoJSON(rawCache.list, zoom)
    /\ lastZB' = zoomBucket(zoom)
    /\ ev' = [NoEvent EXCEPT !.op = "sample", !.samples = 1,
                             !.nth = IF geoCache # NoGeo /\ lastZB = zoomBucket(zoom)
                                     THEN 2 ELSE 1]
    /\ UNCHANGED <<doc, mounted, listeners, orphan, destinationMarker, picked,
                   loaded, loadFired, busy, layers, sources, fog,
                   cam, dragRotate, touchZoomRotate, applied, snap, snapCam,
                   heatOn, heatRef, mapStyleAlt, pending, rawCache, waiting,
                   heatLoading, fetches, resp, zoom, zoomAnim, fitReq,
                   routeMarkers, routeEndMarker, drawn, hackClass, styleTag,
                   dup, pre, replaced>>

\* the next call is made for another zoom level
ZoomS ==
    /\ \E z \in SampleZooms \ {zoom} : zoom' = z
    /\ ev' = NoEvent
    /\ UNCHANGED <<doc, mounted, listeners, orphan, destinationMarker, picked,
                   loaded, loadFired, busy, layers, sources, fog,
                   cam, dragRotate, touchZoomRotate, applied, snap, snapCam,
                   heatOn, heatRef, mapStyleAlt, pending, rawCache, geoCache,
                   lastZB, waiting, heatLoading, fetches, resp, zoomAnim,
                   fitReq, routeMarkers, routeEndMarker, drawn, hackClass,
                   styleTag, dup, pre, replaced>>

NextS == SampleS \/ ZoomS

\* the routes a draw-routes event carries in the model: the two-point line
\* of the scenario; a two-part line chosen by default; a feature whose
\* middle vertex is the westernmost; a collection of a line, a point and a
\* two-part line whose last part is empty; an active name without a route;
\* a bare two-part line ending in an empty part; a line without vertices; a
\* feature without geometry; three different lines, the fastest active; a
\* line that lacks its coordinates
Line1 == <<<<-7399, 4075>>, <<-7398, 4076>>>>
Line2 == <<<<-7397, 4080>>, <<-7395, 4078>>>>
Line3 == <<<<-7396, 4070>>, <<-7400, 4073>>, <<-7394, 4071>>>>

RouteDetails ==
    <<Detail(NullGeo, LineString(Line1), NullGeo, "safest"),
      Detail(LineString(Line1), LineString(Line3),
             MultiLineString(<<Line2, Line1>>), ""),
      Detail(Feature(LineString(Line3)), NullGeo, NullGeo, "fastest"),
      Detail(NullGeo, NullGeo,
             FeatureCollection(<<Feature(LineString(Line1)),
                                 Feature(PointGeo(<<-7300, 4000>>)),
                                 Feature(MultiLineString(<<Line3, <<>>>>))>>),
             "weighted"),
      Detail(LineString(Line2), NullGeo, NullGeo, "safest"),
      Detail(MultiLineString(<<Line2, <<>>>>), NullGeo, NullGeo, ""),
      Detail(LineString(<<>>), NullGeo, NullGeo, "fastest"),
      Detail(Feature(NullGeo), NullGeo, NullGeo, ""),
      Detail(LineString(Line1), LineString(Line2), LineString(Line3), "fastest"),
      Detail(NullGeo, LineString(Undefined), NullGeo, "safest")>>

\* 'app:draw-routes'
DrawRoutes(d) ==
    /\ "draw-routes" \in listeners
    /\ \E r \in {onDrawRoutes(World, d)} :
       /\ sources' = r.sources /\ fitReq' = r.fitReq
       /\ routeMarkers' = r.routeMarkers /\ routeEndMarker' = r.routeEndMarker
       /\ ev' = [NoEvent EXCEPT !.op = "draw-routes", !.threw = r.threw]
    /\ drawn' = [has |-> TRUE, detail |-> d]
    /\ UNCHANGED <<doc, mounted, listeners, orphan, destinationMarker, picked,
                   loaded, loadFired, busy, layers, fog, cam,
                   dragRotate, touchZoomRotate, applied, snap, snapCam, heatOn,
                   heatRef, mapStyleAlt, pending, rawCache, geoCache, lastZB,
                   waiting, heatLoading, fetches, resp, zoom, zoomAnim,
                   hackClass, styleTag, dup, pre, replaced>>

\* a suggestion is picked in the sidebar and the routing endpoint answers
PickSuggestion(backendUrl, answer, dest) ==
    /\ \E r \in {pickSuggestion(World, listeners, mounted, backendUrl, answer, dest)} :
       /\ sources' = r.sources /\ fitReq' = r.fitReq
       /\ routeMarkers' = r.routeMarkers /\ routeEndMarker' = r.routeEndMarker
       /\ destinationMarker' = r.destinationMarker
    /\ picked' = [has |-> TRUE, backendUrl |-> backendUrl, dest |-> dest,
                  answer |-> answer]
    /\ drawn' = NoDrawn
    /\ ev' = [NoEvent EXCEPT !.op = "pick-suggestion"]
    /\ UNCHANGED <<doc, mounted, listeners, orphan, loaded, loadFired, busy, layers,
                   fog, cam, dragRotate, touchZoomRotate, applied, snap, snapCam,
                   heatOn, heatRef, mapStyleAlt, pending, rawCache, geoCache,
                   lastZB, waiting, heatLoading, fetches, resp, zoom, zoomAnim,
                   hackClass, styleTag, dup, pre, replaced>>

\* the sidebar asks for routes while the map is mounted, loaded and remounted
NextP ==
    \/ Unmount \/ Mount \/ StyleLoad \/ Load
    \/ \E backendUrl \in BOOLEAN, answer \in RouteAnswers, dest \in Destinations :
          PickSuggestion(backendUrl, answer, dest)

SpecP == Init /\ [][NextP]_vars

\* routes drawn on a map that is mounted, loaded and remounted
NextR ==
    \/ Unmount \/ Mount \/ StyleLoad \/ Load
    \/ \E i \in 1..Len(RouteDetails) : DrawRoutes(RouteDetails[i])

SpecR == Init /\ [][NextR]_vars

\* the properties a mutation of the surface may reject ("an unsupported
\* property on an unexpected style"): the first of a pair of fill mutations,
\* the first of the three label mutations, one of the heat paint entries
BadKeys == {"fill-color", "text-color", "heatmap-opacity"}

\* app:toggle-style handled by a map that rejects every mutation of `bad'
SwitchStyleBad(bad) ==
    /\ "toggle-style" \in listeners
    /\ mapStyleAlt' = ~mapStyleAlt
    /\ \E r \in {onToggleStyle([World EXCEPT !.bad = bad], heatRef, ~mapStyleAlt, "none")} :
            /\ Len(r.pending) <= MaxPending
            /\ Commit(r)
            /\ ev' = Event("toggle-style",
                           IF mapStyleAlt THEN "deactivate" ELSE "activate", applied, r)
            /\ pre' = IF mapStyleAlt THEN NoPre
                      ELSE IF ~applied /\ ~snap.has /\ ~snapCam.has
                      THEN [has |-> TRUE, layers |-> layers, fog |-> fog, cam |-> cam]
                      ELSE pre
            /\ replaced' = r.replaced
            /\ UNCHANGED <<mounted, listeners, orphan, loadFired, heatRef, zoomAnim>>

\* the theme toggled on a surface that rejects single mutations
NextM ==
    \/ StyleLoad \/ Load \/ ToggleHeat
    \/ SwitchStyle("none")
    \/ \E bad \in BadKeys : SwitchStyleBad(bad)

SpecM == Init /\ [][NextM]_vars

SpecS == InitS /\ [][NextS]_vars

\* the style replaced by the fallback of removeHackopolyTheme while routes
\* are drawn, the zoom changes and the heat data arrives
RecreateDetails == {RouteDetails[1], RouteDetails[9]}

NextC ==
    \/ StyleLoad \/ Load \/ ZoomOut \/ ZoomEnd
    \/ HeatLoaded(RespEdges)
    \/ \E fail \in FailPoints : SwitchStyle(fail)
    \/ \E d \in RecreateDetails : DrawRoutes(d)

SpecC == Init /\ [][NextC]_vars

TypeOK ==
    /\ mounted \in BOOLEAN /\ loaded \in BOOLEAN /\ applied \in BOOLEAN
    /\ zoom \in (initialZoom - ZoomSpan * ZoomStep)..initialZoom
    /\ Len(pending) <= MaxPending

\* ------------------------------------------------------------- properties
Ids(ls) == {ls[i].id : i \in 1..Len(ls)}

At(ls, id) == ls[IndexOf(ls, id)]

Range(q) == {q[i] : i \in 1..Len(q)}

HeatRouteLayers == {HEAT_LAYER_ID, "fastest-line", "safest-line", "weighted-line"}

CustomLayerIds == HeatRouteLayers \cup {EXTRUSION_ID}

CustomSources == {HEAT_SOURCE_ID, "fastest-src", "safest-src", "weighted-src"}

\* key k has in `now' the value it has in `was'
KeptKey(now, was, k) == k \in DOMAIN now /\ now[k] = was[k]

\* index of the first symbol layer with a text field, 0 when there is none
FirstLabel(ls) ==
    LET S == {i \in 1..Len(ls) : ls[i].type = "symbol" /\ "text-field" \in DOMAIN ls[i].layout} IN
    IF S = {} THEN 0 ELSE CHOOSE i \in S : \A j \in S : i <= j

\* this step is a toggle-style that ran removeHackopolyTheme to its end
DeactivateDone ==
    ev'.op = "toggle-style" /\ ev'.theme = "deactivate" /\ ~ev'.fellBack

\* C1: when the theme is switched off after having been switched on, every
\* paint and layout key recorded for a layer that is still in the style has
\* the value it had before the theme was switched on; the one key another
\* command writes, the heat layer's visibility, is exempt when the heat
\* toggle was flipped in between
C1_SnapshotKeysRestored ==
    [][(DeactivateDone /\ pre.has) =>
          \A i \in 1..Len(pre.layers) :
             LET o == pre.layers[i] IN
             o.id \in Ids(layers') =>
                /\ \A k \in DOMAIN o.paint : KeptKey(At(layers', o.id).paint, o.paint, k)
                /\ \A k \in DOMAIN o.layout :
                      \/ KeptKey(At(layers', o.id).layout, o.layout, k)
                      \/ /\ o.id = HEAT_LAYER_ID /\ k = "visibility"
                         /\ o.layout[k] # Visibility(heatRef)]_vars

\* the theme was painted and has just been taken off again
W_C1_Restored ==
    /\ ev.op = "toggle-style" /\ ev.theme = "deactivate" /\ ev.wasApplied
    /\ ~ev.fellBack /\ loaded /\ fog = "themed"
    /\ "land" \in Ids(layers)
    /\ At(layers, "land").paint = ("background-color" :> "land0")

\* C2: after the theme was switched on and off again the basemap is exactly
\* as before: every base layer's paint and layout, the fog and the camera
C2_ThemeFullyReversible ==
    [][(DeactivateDone /\ pre.has) =>
          /\ \A i \in 1..Len(pre.layers) :
                LET o == pre.layers[i] IN
                (o.id \in Ids(layers') /\ o.id \notin CustomLayerIds) =>
                    At(layers', o.id) = o
          /\ fog' = pre.fog
          /\ cam' = pre.cam]_vars

\* C3: applyHackopolyTheme on a map whose applied flag is set changes
\* nothing: the toggle leaves the surface as it is, and the load handler
\* leaves it as recreateCustomLayers alone would
C3_ActivateIdempotent ==
    [][/\ (ev'.op = "toggle-style" /\ ev'.theme = "activate" /\ applied) =>
             UNCHANGED <<layers, sources, fog, cam, dragRotate, touchZoomRotate,
                         applied, snap, snapCam, pending, hackClass, styleTag>>
       /\ (ev'.op = "load" /\ ev'.theme = "activate" /\ applied) =>
             /\ layers' = recreateCustomLayers(World, heatRef).layers
             /\ sources' = recreateCustomLayers(World, heatRef).sources
             /\ UNCHANGED <<fog, cam, dragRotate, touchZoomRotate, applied,
                            snap, snapCam, pending, hackClass, styleTag>>]_vars

\* the load handler called applyHackopolyTheme on a map already switched on
W_C3_SecondActivate ==
    ev.op = "load" /\ ev.theme = "activate" /\ ev.wasApplied /\ applied

\* C4: removeHackopolyTheme on a map whose applied flag is not set changes
\* no layer, no source, no camera, no interaction and no flag of the map
C4_DeactivateOffNoOp ==
    [][(ev'.op = "toggle-style" /\ ev'.theme = "deactivate" /\ ~applied) =>
          UNCHANGED <<layers, sources, fog, cam, dragRotate, touchZoomRotate,
                      applied, snap, snapCam, pending, heatOn, loaded, busy,
                      hackClass>>]_vars

\* removeHackopolyTheme ran to its end on a loaded map that was not themed
W_C4_DeactivateOff ==
    /\ ev.op = "toggle-style" /\ ev.theme = "deactivate" /\ ~ev.wasApplied
    /\ ~ev.fellBack /\ loaded /\ HEAT_LAYER_ID \in Ids(layers)

\* C5: a snapshot (layers, camera) is taken only by applyHackopolyTheme and
\* only when none is held, it is the live style and camera of that moment,
\* it is never replaced while it is held, and it is gone when
\* removeHackopolyTheme has run to its end
C5_SnapshotSingleCapture ==
    [][/\ (snap.has /\ snap'.has) => snap' = snap
       /\ (snapCam.has /\ snapCam'.has) => snapCam' = snapCam
       /\ (~snap.has /\ snap'.has) =>
             /\ ev'.theme = "activate" /\ ~applied /\ applied'
             /\ snap'.layers = IF ev'.op = "load"
                               THEN recreateCustomLayers(World, heatRef).layers
                               ELSE layers
       /\ (~snapCam.has /\ snapCam'.has) =>
             /\ ev'.theme = "activate" /\ ~applied /\ applied'
             /\ snapCam'.pitch = cam.pitch /\ snapCam'.bearing = cam.bearing
       /\ DeactivateDone => ~snap'.has /\ ~snapCam'.has]_vars

\* the theme was switched on again while the snapshot of an unfinished
\* removal was still held, and that snapshot is still the original style
W_C5_SnapshotKept ==
    /\ ev.op = "toggle-style" /\ ev.theme = "activate" /\ ~ev.wasApplied
    /\ applied /\ loaded /\ snap.has /\ ~pre.has
    /\ "land" \in Ids(snap.layers)
    /\ At(snap.layers, "land").paint = ("background-color" :> "land0")
    /\ At(layers, "land").paint = ("background-color" :> colors.background)

\* C6: a theme toggle changes neither the heat toggle, nor the flag kept on
\* the map, nor the heat layer's visibility and paint, nor the heat data
C6_ThemeHeatOrthogonal ==
    [][ev'.op = "toggle-style" =>
          /\ heatRef' = heatRef /\ heatOn' = heatOn
          /\ (HEAT_LAYER_ID \in Ids(layers')) = (HEAT_LAYER_ID \in Ids(layers))
          /\ HEAT_LAYER_ID \in Ids(layers) =>
                At(layers', HEAT_LAYER_ID) = At(layers, HEAT_LAYER_ID)
          /\ HEAT_SOURCE_ID \in DOMAIN sources =>
                /\ HEAT_SOURCE_ID \in DOMAIN sources'
                /\ sources'[HEAT_SOURCE_ID] = sources[HEAT_SOURCE_ID]]_vars

\* the theme was painted and taken off while the heat layer is shown
W_C6_ThemeOffHeatShown ==
    /\ ev.op = "toggle-style" /\ ev.theme = "deactivate" /\ ev.wasApplied
    /\ ~ev.fellBack /\ fog = "themed" /\ heatRef
    /\ HEAT_LAYER_ID \in Ids(layers)
    /\ At(layers, HEAT_LAYER_ID).layout["visibility"] = "visible"

C8_CreationIdempotent ==
    /\ ~dup
    /\ \A i, j \in 1..Len(layers) : layers[i].id = layers[j].id => i = j

\* the custom layers were created, destroyed by setStyle and created again
W_C8_CreatedAgain ==
    /\ ev.op = "style.reload" /\ loadFired /\ loaded
    /\ CustomSources \subseteq DOMAIN sources
    /\ HeatRouteLayers \subseteq Ids(layers)

\* C9: whenever the style has a label layer, the heat layer lies directly
\* below the first one
C9_HeatBelowFirstLabel ==
    (mounted /\ loaded /\ HEAT_LAYER_ID \in Ids(layers) /\ FirstLabel(layers) # 0)
        => IndexOf(layers, HEAT_LAYER_ID) + 1 = FirstLabel(layers)

\* the theme has inserted its extrusion layer below the labels
W_C9_WithExtrusion ==
    /\ applied /\ loaded /\ EXTRUSION_ID \in Ids(layers)
    /\ HEAT_LAYER_ID \in Ids(layers) /\ FirstLabel(layers) # 0
    /\ FirstLabel(layers) > 1 /\ layers[FirstLabel(layers) - 2].id = EXTRUSION_ID

C11_ToggleTwiceRestores ==
    [][(ev.op = "toggle-heat" /\ ev'.op = "toggle-heat" /\ heatRef' # heatRef)
       => /\ heatRef' = ev.heatWas
          /\ HeatVisibility(layers') = ev.visWas
          /\ ev.samples + ev'.samples <= 1]_vars

\* the second of two toggles switched the heat back on and sampled, the
\* zoom having left the bucket of the last sample before the first
W_C11_SecondToggle ==
    /\ ev.op = "toggle-heat" /\ ev.nth = 2 /\ ~ev.threw /\ ev.samples = 1
    /\ heatRef /\ HeatVisibility(layers) = "visible"
    /\ Len(rawCache.list) > 0

\* C12: a zoom-end event whose zoom lies in the bucket of the last rendered
\* sample calls the sampler not at all and leaves the data of every source,
\* the sample cache and the remembered bucket as they are; a zoom-end that
\* does sample has left that bucket.
C12_ResampleOnlyOnBucketChange ==
    [][(zoomAnim /\ ~zoomAnim' /\ mounted')
       => /\ zoomBucket(zoom) = lastZB
             => /\ ev'.samples = 0
                /\ sources' = sources
                /\ geoCache' = geoCache
                /\ lastZB' = lastZB
          /\ ev'.samples > 0
             => /\ zoomBucket(zoom') # lastZB
                /\ lastZB' = zoomBucket(zoom')
                /\ geoCache' = buildHeatGeoJSON(rawCache.list, zoom')]_vars

\* a zoom-end at zoom 10.2 that kept the sample made for the bucket at 11.2
W_C12_SameBucketZoomEnd ==
    /\ ev.op = "zoomend" /\ ev.samples = 0
    /\ zoom = initialZoom - 2 * ZoomStep /\ zoomBucket(zoom) = lastZB
    /\ HEAT_SOURCE_ID \in DOMAIN sources
    /\ Len(sources[HEAT_SOURCE_ID].features) > 0

\* C13: the heatmap is fetched at most once, whatever the calls of
\* ensureHeatSource, style reloads and mounts; a handler that creates the
\* heat source while the load is pending starts no fetch and samples
\* nothing, it leaves a continuation on the one pending promise, and when
\* the promise settles the source of the waiting map is sampled from the
\* loaded edges.
C13_SingleFetchSharedLoad ==
    /\ [](fetches <= 1)
    /\ []((waiting => mounted) /\ (heatLoading.state = "pending" <=> rawCache.null))
    /\ [][/\ (heatLoading.state = "pending" /\ heatLoading'.state = "pending"
              /\ HEAT_SOURCE_ID \notin DOMAIN sources
              /\ HEAT_SOURCE_ID \in DOMAIN sources')
             => /\ waiting' /\ fetches' = fetches /\ ev'.samples = 0
                /\ sources'[HEAT_SOURCE_ID] = EmptyData
          /\ (heatLoading.state = "pending" /\ heatLoading'.state # "pending")
             => /\ fetches' = fetches /\ ~waiting'
                /\ rawCache' = Raw(heatLoading'.value)
                /\ (waiting /\ HEAT_SOURCE_ID \in DOMAIN sources)
                   => sources'[HEAT_SOURCE_ID] =
                         buildHeatGeoJSON(heatLoading'.value, zoom)]_vars

\* after a style reload the rebuilt heat source waits on the load that is
\* still pending
W_C13_WaitingAfterReload ==
    /\ ev.op = "style.reload" /\ heatLoading.state = "pending" /\ waiting
    /\ fetches = 1 /\ HEAT_SOURCE_ID \in DOMAIN sources

\* the answers of the network that are a failure of the load: no answer, no
\* Response, an HTTP error status, a body that is not JSON, JSON that is not
\* an array
LoadFailure(r) ==
    \/ ~r.arrives \/ ~r.res \/ ~r.ok
    \/ r.body = "garbage" \/ r.body = "object"

\* C14: the load is never in a rejected state; after a transport failure, an
\* HTTP error, a body that is not JSON or a payload that is not an array it
\* is fulfilled with the empty list, the raw cache holds the empty list, the
\* continuation of a waiting map throws nothing and gives its heat source an
\* empty feature collection, and the layers stay as they are.
C14_FailureLoadsEmptyList ==
    /\ [](heatLoading.state # "rejected")
    /\ []((heatLoading.state = "fulfilled" /\ LoadFailure(resp))
          => /\ heatLoading.value = <<>> /\ rawCache = Raw(<<>>)
             /\ HEAT_SOURCE_ID \in DOMAIN sources
                => sources[HEAT_SOURCE_ID] = FeatureCollection(<<>>))
    /\ [][(heatLoading.state = "pending" /\ heatLoading'.state # "pending"
           /\ LoadFailure(resp'))
          => /\ ~ev'.threw /\ layers' = layers
             /\ DOMAIN sources' = DOMAIN sources]_vars

\* an HTTP error answered the fetch while a visible heat layer was waiting
\* for the edges
W_C14_HttpErrorWhileWaiting ==
    /\ ev.op = "heat-loaded" /\ ev.samples = 1 /\ resp = RespHttpError
    /\ heatLoading = Settled("fulfilled", <<>>)
    /\ HeatVisibility(layers) = "visible"

\* an element of the edge list that has both coordinate pairs, all numbers
WellFormed(seg) ==
    /\ Len(seg.from) >= 2 /\ Len(seg.to) >= 2
    /\ NaN \notin {seg.from[1], seg.from[2], seg.to[1], seg.to[2]}

\* the risk of an edge within [0, 1]
Weight(seg) ==
    IF seg.risk_score < 0 THEN 0
    ELSE IF seg.risk_score > 100 THEN 100
    ELSE seg.risk_score

Between(x, a, b) == (a <= x /\ x <= b) \/ (b <= x /\ x <= a)

\* the feature carries the weight of the edge and lies on it, its first
\* coordinate being the longitude
OnEdge(f, seg) ==
    /\ f.mag = Weight(seg) /\ f.risk = Weight(seg)
    /\ Between(f.coordinates[1].n, seg.from[2] * f.coordinates[1].d,
               seg.to[2] * f.coordinates[1].d)
    /\ Between(f.coordinates[2].n, seg.from[1] * f.coordinates[2].d,
               seg.to[1] * f.coordinates[2].d)

\* the feature lies halfway between the ends of the edge
AtMidpoint(f, seg) ==
    /\ 2 * f.coordinates[1].n = (seg.from[2] + seg.to[2]) * f.coordinates[1].d
    /\ 2 * f.coordinates[2].n = (seg.from[1] + seg.to[1]) * f.coordinates[2].d

\* __HEAT_GEO_CACHE is the sample of the list and the zoom of this state
Sampled == ev.op = "sample"

\* C15: for every list of edges and every zoom level the sample holds, for
\* each edge of the list, at least one point lying on that edge with its
\* weight (as many as the edge occurs in the list): no edge is left without
\* a point, one of length zero included.
C15_EveryEdgeSampled ==
    Sampled =>
        \A k \in 1..Len(rawCache.list) :
            WellFormed(rawCache.list[k]) =>
                Cardinality({i \in 1..Len(geoCache.features) :
                                OnEdge(geoCache.features[i], rawCache.list[k])})
                    >= Cardinality({j \in 1..Len(rawCache.list) :
                                       rawCache.list[j] = rawCache.list[k]})

\* at the finest spacing an edge of length zero, listed after an element
\* without coordinates, has its one point
W_C15_ZeroLengthSampled ==
    /\ Sampled /\ zoom = 180 /\ Len(rawCache.list) = 2
    /\ ~WellFormed(rawCache.list[1])
    /\ WellFormed(rawCache.list[2]) /\ rawCache.list[2].from = rawCache.list[2].to
    /\ Len(geoCache.features) = 1

\* C16: below zoom 10 the sample holds exactly one point per edge, in the
\* order of the list, at the midpoint of the edge and with the edge's risk
\* weight.
C16_CoarsestOneMidpoint ==
    (Sampled /\ zoom < 100) =>
        LET edges == SelectSeq(rawCache.list, WellFormed) IN
        /\ Len(geoCache.features) = Len(edges)
        /\ \A k \in 1..Len(edges) :
              /\ geoCache.features[k].mag = Weight(edges[k])
              /\ geoCache.features[k].risk = Weight(edges[k])
              /\ AtMidpoint(geoCache.features[k], edges[k])

\* two edges, the first more than a kilometre long, sampled at zoom 9.9
W_C16_TwoEdgesCoarse ==
    /\ Sampled /\ zoom = 99 /\ Len(rawCache.list) = 2
    /\ WellFormed(rawCache.list[1]) /\ WellFormed(rawCache.list[2])
    /\ rawCache.list[1].to[1] - rawCache.list[1].from[1] = 10
    /\ rawCache.list[2].from # rawCache.list[2].to
    /\ Len(geoCache.features) = 2

\* C17: for one list of edges the sampler returns the same collection for
\* every zoom level of a bucket, and the same again when called again; a
\* call changes nothing but the result it returns and the bucket recorded
\* with it.
C17_SamplePerBucket ==
    /\ [](Sampled =>
            \A z \in SampleZooms :
               zoomBucket(z) = zoomBucket(zoom)
                  => /\ spacingForZoom(z) = spacingForZoom(zoom)
                     /\ buildHeatGeoJSON(rawCache.list, z) = geoCache)
    /\ [][ev'.op = "sample"
          => /\ rawCache' = rawCache /\ zoom' = zoom /\ sources' = sources
             /\ (geoCache # NoGeo /\ lastZB = zoomBucket(zoom))
                => (geoCache' = geoCache /\ lastZB' = lastZB)]_vars

\* the long edge sampled at zoom 15.9 after a sample for the same bucket
W_C17_SameBucketAgain ==
    /\ Sampled /\ ev.nth = 2 /\ zoom = 159 /\ Len(rawCache.list) = 1
    /\ WellFormed(rawCache.list[1])
    /\ rawCache.list[1].to[1] - rawCache.list[1].from[1] = 10
    /\ Len(geoCache.features) = 37

\* C18: the edge from [40.0, -73.0] to [40.01, -73.0] with risk 0.5, sampled
\* at a zoom of 16 or more, gives 138 points (1111.9 m at 8 m spacing, about
\* 137), all strictly between the ends of the edge at i/139 of the way, each
\* with weight 0.5 and with the longitude -73.0 first and the latitude
\* second.
C18_ScenarioLongEdge ==
    (Sampled /\ zoom >= 160
       /\ rawCache.list = <<Edge(<<40000, -73000>>, <<40010, -73000>>, 50)>>)
    => /\ Len(geoCache.features) = 138
       /\ Abs(Len(geoCache.features) - 137) <= 1
       /\ \A i \in 1..Len(geoCache.features) :
             LET f == geoCache.features[i] IN
             /\ f.mag = 50 /\ f.risk = 50
             /\ f.coordinates[1].n = -73000 * f.coordinates[1].d
             /\ f.coordinates[2].n * 139 = (40000 * 139 + 10 * i) * f.coordinates[2].d

\* the scenario's edge sampled at zoom 16
W_C18_Scenario ==
    /\ Sampled /\ zoom = 160
    /\ rawCache.list = <<Edge(<<40000, -73000>>, <<40010, -73000>>, 50)>>
    /\ Len(geoCache.features) > 100

\* the lines of a geometry, and the vertices of every line of a route given
\* as a geometry, a feature or a feature collection
GeomLines(g) ==
    IF g.type = "LineString" THEN {g.coordinates} \ {Undefined}
    ELSE IF g.type = "MultiLineString" THEN Range(g.coordinates)
    ELSE {}

RouteVertices(geo) ==
    LET ls == IF geo.type = "Feature" THEN GeomLines(geo.geometry)
              ELSE IF geo.type = "FeatureCollection"
              THEN UNION {GeomLines(geo.features[k].geometry) :
                             k \in 1..Len(geo.features)}
              ELSE GeomLines(geo)
    IN  UNION {Range(l) : l \in ls}

\* the vertices of the active route of the draw-routes event handled last
ActiveVertices == RouteVertices(chosenRoute(drawn.detail))

\* C19: after a draw-routes event whose active route has a vertex, the
\* camera fit last requested is for the box [[minLng, minLat], [maxLng,
\* maxLat]] that contains every vertex of every segment of that route and
\* touches one on each side, with padding 60 and zoom ceiling 16; the
\* two-point line of the scenario, active as 'safest', gives
\* [[-73.99, 40.75], [-73.98, 40.76]].
C19_FitToRouteBounds ==
    (drawn.has /\ ActiveVertices # {}) =>
        /\ fitReq.has /\ fitReq.padding = 60 /\ fitReq.maxZoom = 160
        /\ Len(fitReq.box) = 2
        /\ \A v \in ActiveVertices :
              /\ fitReq.box[1][1] <= v[1] /\ v[1] <= fitReq.box[2][1]
              /\ fitReq.box[1][2] <= v[2] /\ v[2] <= fitReq.box[2][2]
        /\ \E v \in ActiveVertices : v[1] = fitReq.box[1][1]
        /\ \E v \in ActiveVertices : v[2] = fitReq.box[1][2]
        /\ \E v \in ActiveVertices : v[1] = fitReq.box[2][1]
        /\ \E v \in ActiveVertices : v[2] = fitReq.box[2][2]
        /\ (drawn.detail.active = "safest" /\ ActiveVertices = Range(Line1))
           => fitReq.box = <<<<-7399, 4075>>, <<-7398, 4076>>>>

\* the feature collection was drawn: its box spans the line and the
\* two-part line, not the point feature
W_C19_CollectionFitted ==
    /\ drawn.has /\ drawn.detail.active = "weighted"
    /\ drawn.detail.weighted.type = "FeatureCollection"
    /\ fitReq.box = <<<<-7400, 4070>>, <<-7394, 4076>>>>

\* C20: the map carries at most one route-end marker, the one kept in
\* map.__routeEndMarker, and after a draw-routes event whose active route
\* has a vertex it stands at the last vertex of the last segment that has
\* one.
C20_SingleRouteEndMarker ==
    /\ Len(routeMarkers) <= 1
    /\ routeEndMarker = Len(routeMarkers)
    /\ (drawn.has /\ ActiveVertices # {})
       => LET lines == getLineCoords(chosenRoute(drawn.detail)) IN
          /\ routeEndMarker = 1
          /\ \E i \in 1..Len(lines) :
                /\ Len(lines[i]) > 0
                /\ \A j \in (i + 1)..Len(lines) : Len(lines[j]) = 0
                /\ routeMarkers[1] = lines[i][Len(lines[i])]

\* the marker was moved to the end of the first part of a two-part line
\* whose last part is empty
W_C20_MarkerAtTrailingVertex ==
    /\ drawn.has /\ drawn.detail.active = ""
    /\ drawn.detail.fastest.type = "MultiLineString"
    /\ drawn.detail.weighted.type = "null"
    /\ routeMarkers = <<Line2[2]>> /\ fitReq.has

\* the geometry the active selector of a draw-routes event names; without a
\* selector the event's weighted, else safest, else fastest route
NamedRoute(d) ==
    IF d.active = "weighted" THEN d.weighted
    ELSE IF d.active = "safest" THEN d.safest
    ELSE IF d.active = "fastest" THEN d.fastest
    ELSE IF d.weighted.type # "null" THEN d.weighted
    ELSE IF d.safest.type # "null" THEN d.safest
    ELSE d.fastest

\* the endpoint marker's position, <<>> while there is none
MarkerAt == IF routeEndMarker = 0 THEN <<>> ELSE routeMarkers[routeEndMarker]

\* C21: a draw-routes event fits the camera and places the endpoint marker
\* for the route its active selector names and for no other: a fit it
\* requests has its four sides on vertices of that route, a marker it places
\* or moves stands on a vertex of that route, and when that route is null
\* the fit request and the marker stay as they were, whatever other routes
\* the event carries.
C21_OnlyActiveRouteDrives ==
    [][(ev'.op = "draw-routes" /\ drawn'.has)
       => LET V == RouteVertices(NamedRoute(drawn'.detail)) IN
          /\ fitReq' # fitReq
             => /\ \E v \in V : v[1] = fitReq'.box[1][1]
                /\ \E v \in V : v[2] = fitReq'.box[1][2]
                /\ \E v \in V : v[1] = fitReq'.box[2][1]
                /\ \E v \in V : v[2] = fitReq'.box[2][2]
          /\ (routeMarkers' # routeMarkers \/ routeEndMarker' # routeEndMarker)
             => /\ routeEndMarker' > 0
                /\ routeMarkers'[routeEndMarker'] \in V
          /\ NamedRoute(drawn'.detail).type = "null"
             => /\ fitReq' = fitReq /\ routeMarkers' = routeMarkers
                /\ routeEndMarker' = routeEndMarker]_vars

\* the event named 'safest', which it does not carry, beside a fastest
\* route: the fit and the marker of the scenario's event before are kept
W_C21_NullActiveKeepsFit ==
    /\ drawn.has /\ drawn.detail.active = "safest"
    /\ drawn.detail.safest.type = "null" /\ drawn.detail.fastest.type # "null"
    /\ fitReq.has /\ fitReq.box = <<<<-7399, 4075>>, <<-7398, 4076>>>>
    /\ MarkerAt = Line1[2]

\* C22: no handler of the component lets an exception leave it: whatever
\* handler ran last (load, style.load, toggle-style, toggle-heat, zoomend,
\* the load continuation), it returned normally.
C22_NoHandlerThrows == ~ev.threw

\* the value a layer holds for a paint or layout property ("" when unset)
PropOf(l, kind, k) ==
    LET f == IF kind = "paint" THEN l.paint ELSE l.layout IN
    IF k \in DOMAIN f THEN f[k] ELSE ""

LayerOf(ls, id) == ls[IndexOf(ls, id)]

\* C23: a mutation that fails inside a theme apply, a theme restore or a
\* heat reassertion is contained: every other mutation of the batch is still
\* made, the remaining properties of the same layer included (the heat
\* layer's own values are those of its reassertion, which follows the restore)
C23_MutationFailureIsolated ==
    [][(ev'.op = "toggle-style" /\ ev'.bad # "" /\ ~ev'.threw /\ loaded /\ ~busy) =>
        /\ (ev'.theme = "activate" /\ ~applied) =>
              \A i \in 1..Len(layers) : \A n \in 1..Len(themeSteps(layers[i])) :
                 LET st == themeSteps(layers[i])[n] IN
                 (st[1] /\ st[3] # ev'.bad) =>
                     PropOf(LayerOf(layers', layers[i].id), st[2], st[3]) = st[4]
        /\ (ev'.theme = "deactivate" /\ snap.has) =>
              \A j \in 1..Len(snap.layers) :
                 LET o == snap.layers[j] IN
                 (getLayer(World, o.id) /\ o.id # HEAT_LAYER_ID) =>
                   /\ \A k \in (DOMAIN o.paint) \ {ev'.bad} :
                         PropOf(LayerOf(layers', o.id), "paint", k) = o.paint[k]
                   /\ \A k \in (DOMAIN o.layout) \ {ev'.bad} :
                         PropOf(LayerOf(layers', o.id), "layout", k) = o.layout[k]
        /\ (getLayer(World, HEAT_LAYER_ID) /\ (ev'.theme = "deactivate" \/ ~applied)) =>
              \A k \in (DOMAIN HEAT_PAINT) \ {ev'.bad} :
                 PropOf(LayerOf(layers', HEAT_LAYER_ID), "paint", k) = HEAT_PAINT[k]
      ]_vars

\* C24: the theme follows the external flag: a toggle-style command handled
\* while a map exists leaves the applied flag equal to window.__mapStyleAlt,
\* whatever was toggled before and whether or not the style has loaded
C24_ThemeFollowsFlag ==
    [][(mounted /\ mapStyleAlt' # mapStyleAlt) => applied' = mapStyleAlt']_vars

\* the theme was switched on and off again, the surface failing in the restore
W_C24_ToggledBackOff ==
    /\ mounted /\ ev.op = "toggle-style" /\ ev.theme = "deactivate"
    /\ ev.wasApplied /\ ev.threw /\ ~applied /\ ~mapStyleAlt

\* what a handler of the component can change: the surface of the map and
\* the component's own record of it
Surface ==
    <<loaded, layers, sources, fog, cam, dragRotate, touchZoomRotate, zoom,
      zoomAnim, fitReq, routeMarkers, routeEndMarker>>

EngineState == <<applied, snap, snapCam, heatOn, heatRef, pending, hackClass>>

\* C25: after the cleanup of the component no handler of it runs: while it
\* is unmounted no command event is handled and nothing changes the surface
\* or the engine's state, and a continuation left behind by a removed map
\* changes no surface when it finally runs, the one of a map mounted since
\* included
C25_NoHandlerAfterTeardown ==
    [][/\ (~mounted /\ ~mounted') =>
            /\ ev'.op \notin CommandEvents \/ ev' = ev
            /\ Surface' = Surface /\ EngineState' = EngineState
       /\ (~mounted /\ mounted') => (ev'.op = "none" /\ listeners' = CommandEvents)
       /\ (ev'.op = "heat-loaded" /\ ev'.late /\ ~waiting) =>
            (Surface' = Surface /\ EngineState' = EngineState)
      ]_vars

\* the heat data arrived after a remount: the continuation of the removed
\* map ran beside a new map whose style had not loaded, and sampled nothing
W_C25_LateContinuation ==
    /\ ev.op = "heat-loaded" /\ ev.late /\ mounted /\ ~loaded
    /\ ev.samples = 0 /\ ~rawCache.null

\* the request of the last pick did not yield the routes of the endpoint
Degraded(p) ==
    ~p.backendUrl \/ ~p.answer.arrives \/ ~p.answer.ok \/ ~p.answer.json

\* the mock geometry as GeoJSON: origin, midpoint, destination as [lon, lat]
MockLine(dest) ==
    <<FALLBACK_CENTER,
      <<(FALLBACK_CENTER[1] + dest[1]) \div 2, (FALLBACK_CENTER[2] + dest[2]) \div 2>>,
      dest>>

ShowsLine(data, line) ==
    /\ data.type = "Feature" /\ data.geometry.type = "LineString"
    /\ data.geometry.coordinates = line

\* C26: whenever the routing endpoint fails (no backend configured, a
\* transport failure, an error status, a body that is not JSON) the mock
\* geometry is drawn: the three route sources of a mounted map hold it
C26_RouteFailureDrawsMock ==
    [][(ev'.op = "pick-suggestion" /\ mounted /\ Degraded(picked')
        /\ \A n \in Range(RouteNames) : (n \o "-src") \in DOMAIN sources) =>
          \A n \in Range(RouteNames) :
             ShowsLine(sources'[n \o "-src"], MockLine(picked'.dest))
      ]_vars

\* two GeoJSON values are the same data
SameGeom(a, b) ==
    /\ a.type = b.type
    /\ a.type \in {"LineString", "MultiLineString", "Point"} => a.coordinates = b.coordinates

SameData(a, b) ==
    /\ a.type = b.type
    /\ a.type = "Feature" => SameGeom(a.geometry, b.geometry)
    /\ a.type = "FeatureCollection" =>
          /\ Len(a.features) = Len(b.features)
          /\ \A k \in 1..Len(a.features) :
                SameGeom(a.features[k].geometry, b.features[k].geometry)
    /\ a.type \notin {"Feature", "FeatureCollection"} => SameGeom(a, b)

\* a route that is given but has no vertex: its coordinates are missing or
\* empty, or it is a feature without geometry
Malformed(geo) == geo.type # "null" /\ RouteVertices(geo) = {}

RouteOf(d, n) ==
    IF n = "fastest" THEN d.fastest ELSE IF n = "safest" THEN d.safest ELSE d.weighted

\* C27: malformed geometry in a draw-routes event is skipped silently: the
\* handler raises nothing, the source of a malformed route keeps its data,
\* and a malformed active route leaves camera and end marker as they were
C27_MalformedGeometrySkipped ==
    [][(ev'.op = "draw-routes" /\ drawn'.has) =>
        /\ ~ev'.threw
        /\ \A n \in Range(RouteNames) :
              (Malformed(RouteOf(drawn'.detail, n)) /\ (n \o "-src") \in DOMAIN sources) =>
                  SameData(sources'[n \o "-src"], sources[n \o "-src"])
        /\ Malformed(NamedRoute(drawn'.detail)) =>
              (fitReq' = fitReq /\ routeMarkers' = routeMarkers
               /\ routeEndMarker' = routeEndMarker)
      ]_vars

\* n = max(1, floor(d / s)) for a well-formed edge and a spacing in metres
InteriorCount(seg, s) ==
    LET d == haversine(seg.from[1], seg.from[2], seg.to[1], seg.to[2])
        q == d \div (s * MetreUm)
    IN  IF q < 1 THEN 1 ELSE q

\* the number of points the elements of the list before the k-th are due
RECURSIVE PointsBefore(_, _, _)
PointsBefore(list, s, k) ==
    IF k <= 1 THEN 0
    ELSE PointsBefore(list, s, k - 1)
         + (IF WellFormed(list[k - 1]) THEN InteriorCount(list[k - 1], s) ELSE 0)

\* the coordinate x = n/d lies at parameter i/(m + 1) between a and b
AtParameter(x, a, b, i, m) == x.n * (m + 1) = (a * (m + 1) + (b - a) * i) * x.d

\* C28: in every bucket but the coarsest the sample lists, edge after edge
\* in the order of the input, n = max(1, floor(d / s)) points for an edge
\* of length d under the spacing s, the i-th of them at t = i/(n + 1) of the
\* way from `from' to `to', i running from 1 to n: never at an end of the edge
C28_InteriorSampling ==
    (Sampled /\ spacingForZoom(zoom) # Infinity) =>
        LET list == rawCache.list
            s == spacingForZoom(zoom)
            F == geoCache.features
        IN  /\ Len(F) = PointsBefore(list, s, Len(list) + 1)
            /\ \A k \in 1..Len(list) :
                  WellFormed(list[k]) =>
                    LET m == InteriorCount(list[k], s) IN
                    \A i \in 1..m :
                       LET f == F[PointsBefore(list, s, k) + i] IN
                       /\ 0 < i /\ i < m + 1
                       /\ AtParameter(f.coordinates[1], list[k].from[2], list[k].to[2], i, m)
                       /\ AtParameter(f.coordinates[2], list[k].from[1], list[k].to[1], i, m)
                       /\ f.mag = Weight(list[k])

\* 1112 m and then 556 m sampled every 60 m: 18 points and then 9
W_C28_TwoEdgesInOrder ==
    /\ Sampled /\ zoom = 140 /\ Len(rawCache.list) = 2
    /\ rawCache.list[1] = Edge(<<40000, -73000>>, <<40010, -73000>>, 50)
    /\ rawCache.list[2] = Edge(<<40020, -73000>>, <<40025, -73000>>, 30)
    /\ Len(geoCache.features) = 27
    /\ geoCache.features[18].mag = 50 /\ geoCache.features[19].mag = 30

\* C29: every point of the sample carries the risk of its edge clamped into
\* [0, 1], in `mag' and in `risk' alike: the weights lie in [0, 1] and the
\* points of one edge all weigh the same, in the coarsest bucket too
C29_WeightIsClampedRisk ==
    Sampled =>
        LET list == rawCache.list
            s == spacingForZoom(zoom)
            F == geoCache.features
            Due(k) == IF s = Infinity
                      THEN Cardinality({j \in 1..(k - 1) : WellFormed(list[j])})
                      ELSE PointsBefore(list, s, k)
        IN  /\ \A j \in 1..Len(F) : 0 <= F[j].mag /\ F[j].mag <= 100
            /\ \A k \in 1..Len(list) :
                  \A j \in (Due(k) + 1)..Due(k + 1) :
                     /\ F[j].mag = Min(100, Max(0, list[k].risk_score))
                     /\ F[j].risk = F[j].mag

\* a risk of 1.5 and a risk of -0.2 sampled: weights 1 and 0
W_C29_BothEndsClamped ==
    /\ Sampled /\ Len(rawCache.list) = 2 /\ Len(geoCache.features) >= 2
    /\ rawCache.list[1].risk_score = 150 /\ rawCache.list[2].risk_score = -20
    /\ geoCache.features[1].mag = 100
    /\ geoCache.features[Len(geoCache.features)].mag = 0

\* the points due before the k-th element of the list under the spacing s
DueBefore(list, s, k) ==
    IF s = Infinity THEN Cardinality({j \in 1..(k - 1) : WellFormed(list[j])})
    ELSE PointsBefore(list, s, k)

ZeroLength(seg) == WellFormed(seg) /\ seg.from = seg.to

\* as many points as the well-formed edges of non-zero length are due
C30_ZeroLengthAndMalformedSkipped ==
    Sampled =>
        LET list == rawCache.list
            s == spacingForZoom(zoom)
        IN  Len(geoCache.features)
              = DueBefore(list, s, Len(list) + 1)
                - Cardinality({k \in 1..Len(list) : ZeroLength(list[k])})

\* C30: a list element that lacks an endpoint, has an endpoint of fewer
\* than two components or a coordinate that is no number adds no point,
\* and the points of the other edges are what they are without it; an edge
\* of length zero is not skipped: it adds one point, at its position
C30_MalformedSkippedZeroLengthKept ==
    Sampled =>
        LET list == rawCache.list
            s == spacingForZoom(zoom)
            F == geoCache.features
        IN  /\ Len(F) = DueBefore(list, s, Len(list) + 1)
            /\ \A k \in 1..Len(list) :
                  /\ WellFormed(list[k]) =>
                        \A j \in (DueBefore(list, s, k) + 1)..DueBefore(list, s, k + 1) :
                           OnEdge(F[j], list[k])
                  /\ ZeroLength(list[k]) =>
                        /\ DueBefore(list, s, k + 1) = DueBefore(list, s, k) + 1
                        /\ AtMidpoint(F[DueBefore(list, s, k) + 1], list[k])

\* a longitude that is no number, then an edge of length zero: one point
W_C30_OnlyZeroLengthSampled ==
    /\ Sampled /\ Len(rawCache.list) = 2
    /\ WellFormed(rawCache.list[2]) /\ ~WellFormed(rawCache.list[1])
    /\ Len(rawCache.list[1].from) = 2 /\ ZeroLength(rawCache.list[2])
    /\ Len(geoCache.features) = 1
    /\ geoCache.features[1].mag = 100

\* the buckets from the coarsest to the finest
BucketRank(b) ==
    CASE b = "z<10" -> 0 [] b = "z10-11" -> 1 [] b = "z12-13" -> 2
      [] b = "z14" -> 3 [] b = "z15" -> 4 [] b = "z16+" -> 5 [] OTHER -> 6

\* the number of points of the collection that lie on the edge
Emitted(F, seg) == Cardinality({i \in 1..Len(F) : OnEdge(F[i], seg)})

\* C31: the sampling density is monotone in the zoom bucket: a sample made
\* for a bucket no finer than the one of the sample before holds, for every
\* edge, no more points than that one did; the spacing of a lower zoom level
\* is never smaller; and below zoom 10 an edge has no more than its one
\* midpoint (per occurrence in the list)
C31_DensityMonotone ==
    /\ [](Sampled =>
            /\ \A z \in SampleZooms :
                  z <= zoom => spacingForZoom(z) >= spacingForZoom(zoom)
            /\ zoomBucket(zoom) = "z<10" =>
                  \A k \in 1..Len(rawCache.list) :
                     WellFormed(rawCache.list[k]) =>
                        Emitted(geoCache.features, rawCache.list[k])
                          <= Cardinality({j \in 1..Len(rawCache.list) :
                                             rawCache.list[j] = rawCache.list[k]}))
    /\ [][(ev'.op = "sample" /\ geoCache # NoGeo
            /\ BucketRank(lastZB') <= BucketRank(lastZB))
          => \A k \in 1..Len(rawCache.list) :
                WellFormed(rawCache.list[k]) =>
                   Emitted(geoCache'.features, rawCache.list[k])
                     <= Emitted(geoCache.features, rawCache.list[k])]_vars

\* 1112 m and 556 m sampled for zoom 10-11 after a sample for another
\* bucket: three points and one
W_C31_CoarserSample ==
    /\ Sampled /\ ev.nth = 1 /\ zoom = 119 /\ Len(rawCache.list) = 2
    /\ rawCache.list[1] = Edge(<<40000, -73000>>, <<40010, -73000>>, 50)
    /\ rawCache.list[2] = Edge(<<40020, -73000>>, <<40025, -73000>>, 30)
    /\ Emitted(geoCache.features, rawCache.list[1]) = 3
    /\ Emitted(geoCache.features, rawCache.list[2]) = 1

\* the one-shot 'style.load' listeners that hold patchTheme
Deferred(ps) == Cardinality({i \in 1..Len(ps) : ps[i] = "patchTheme"})

HasExtrusion(ls) == EXTRUSION_ID \in Ids(ls)

\* an activate is handled on a map whose flag is off
Activating ==
    /\ ev'.op \in {"toggle-style", "load"} /\ ev'.theme = "activate" /\ ~applied

\* C32: an activate handled while the style is not loaded mutates no layer
\* and leaves one deferred patch, which the next style.load runs, once; an
\* activate handled while the style is loaded patches at once and defers
\* nothing
C32_DeferredPatch ==
    [][/\ (Activating /\ ~isStyleLoaded(World)) =>
            /\ ev'.op = "toggle-style" => layers' = layers
            /\ HasExtrusion(layers') <=> HasExtrusion(layers)
            /\ fog' = fog /\ cam' = cam
            /\ Deferred(pending') = Deferred(pending) + 1
       /\ (Activating /\ isStyleLoaded(World)) =>
            /\ HasExtrusion(layers') /\ fog' = "themed" /\ cam' = ThemeCam
            /\ Deferred(pending') = Deferred(pending)
       /\ (ev'.op \in {"style.load", "style.reload"} /\ Deferred(pending) > 0) =>
            /\ Deferred(pending) = 1 /\ Deferred(pending') = 0
            /\ HasExtrusion(layers') /\ fog' = "themed" /\ cam' = ThemeCam
      ]_vars

\* C33: the themed patch takes effect only while the theme is On: a step
\* that starts and ends with the applied flag off neither inserts the
\* extrusion layer, nor sets the themed fog or camera, nor enables rotating,
\* and while the flag is off the extrusion layer is absent
C33_PatchOnlyWhileOn ==
    /\ [](~applied => ~HasExtrusion(layers))
    /\ [][(~applied /\ ~applied') =>
            /\ HasExtrusion(layers') => HasExtrusion(layers)
            /\ fog' = "themed" => fog = "themed"
            /\ cam' = ThemeCam => cam = ThemeCam
            /\ dragRotate' => dragRotate
            /\ touchZoomRotate' => touchZoomRotate]_vars

\* how often the extrusion layer occurs in the layer order
Extrusions(ls) == Cardinality({i \in 1..Len(ls) : ls[i].id = EXTRUSION_ID})

\* an activate patches at once: a toggle-style handled with the flag off
\* on a loaded, idle style
PatchingNow ==
    /\ ev'.op = "toggle-style" /\ ev'.theme = "activate" /\ ~applied
    /\ isStyleLoaded(World)

\* the extrusion layer is the layer directly before the first label layer
C34_ExtrusionDirectlyBelowLabel ==
    /\ [](Extrusions(layers) <= 1)
    /\ [][PatchingNow =>
            /\ Extrusions(layers') = 1
            /\ Ids(layers') = Ids(layers) \cup {EXTRUSION_ID}
            /\ Len(layers') = Len(layers) + 1 - Extrusions(layers)
            /\ FirstLabel(layers') # 0 =>
                  IndexOf(layers', EXTRUSION_ID) + 1 = FirstLabel(layers')]_vars

\* C34: activate adds exactly one layer, the extrusion layer, and none when
\* the layer exists already; the layer is put below the first label layer
\* (the first symbol layer with a text field), where only the heat layer,
\* which the same patch moves directly below the labels, comes between the
\* two; in a style without label layer it is put on top
C34_ExtrusionBelowLabelAndHeat ==
    /\ [](Extrusions(layers) <= 1)
    /\ [][PatchingNow =>
            /\ Extrusions(layers') = 1
            /\ Ids(layers') = Ids(layers) \cup {EXTRUSION_ID}
            /\ Len(layers') = Len(layers) + 1 - Extrusions(layers)
            /\ LET x == IndexOf(layers', EXTRUSION_ID)
                   f == FirstLabel(layers')
               IN  IF f = 0 THEN Extrusions(layers) = 0 => x = Len(layers')
                   ELSE /\ x < f
                        /\ \A i \in (x + 1)..(f - 1) : layers'[i].id = HEAT_LAYER_ID
                        /\ Extrusions(layers) = 0 => f - x <= 2]_vars

\* an activate has patched a style with labels: the one extrusion layer,
\* then the heat layer, then the first label layer
W_C34_HeatBetween ==
    /\ ev.op = "toggle-style" /\ ev.theme = "activate" /\ ~ev.wasApplied
    /\ applied /\ loaded /\ Extrusions(layers) = 1 /\ snap.has
    /\ ~HasExtrusion(snap.layers)
    /\ FirstLabel(layers) = IndexOf(layers, EXTRUSION_ID) + 2
    /\ layers[FirstLabel(layers) - 1].id = HEAT_LAYER_ID

\* the keys the snapshot records for the layer, none when it has no entry
Recorded(orig, id, kind) ==
    IF IndexOf(orig, id) = 0 THEN {}
    ELSE IF kind = "paint" THEN DOMAIN orig[IndexOf(orig, id)].paint
    ELSE DOMAIN orig[IndexOf(orig, id)].layout

\* the key keeps its value, or is one the snapshot records
OnlyRecordedWritten(now, was, keys) ==
    /\ DOMAIN was \subseteq DOMAIN now
    /\ DOMAIN now \subseteq DOMAIN was \cup keys
    /\ \A k \in DOMAIN was \ keys : now[k] = was[k]

\* C35: deactivate only writes properties recorded in the snapshot: of
\* every layer it leaves in the style (it removes the extrusion layer), a
\* paint or layout key that the layer's snapshot entry does not record
\* keeps its value, no key is deleted and none is added that the entry does
\* not record, and a layer without entry is not modified
C35_DeactivateWritesRecordedOnly ==
    [][(ev'.op = "toggle-style" /\ ev'.theme = "deactivate" /\ ~ev'.reloaded) =>
         /\ Ids(layers') = Ids(layers) \ {EXTRUSION_ID}
         /\ \A i \in 1..Len(layers) :
               layers[i].id # EXTRUSION_ID =>
                 LET l == layers[i]
                     n == At(layers', l.id)
                 IN  /\ n.type = l.type
                     /\ OnlyRecordedWritten(n.paint, l.paint,
                                            Recorded(snap.layers, l.id, "paint"))
                     /\ OnlyRecordedWritten(n.layout, l.layout,
                                            Recorded(snap.layers, l.id, "layout"))]_vars

\* the theme is off again: the park layer has its recorded fill colour
\* back and keeps the outline colour the theme gave it, which the snapshot
\* does not record
W_C35_UnrecordedKeyKept ==
    /\ ev.op = "toggle-style" /\ ev.theme = "deactivate" /\ ev.wasApplied
    /\ ~ev.threw /\ ~applied /\ loaded /\ "landuse" \in Ids(layers)
    /\ At(layers, "landuse").paint["fill-color"] = "park0"
    /\ "fill-outline-color" \in DOMAIN At(layers, "landuse").paint
    /\ At(layers, "landuse").paint["fill-outline-color"] = colors.parkOutline

\* the source holds the empty collection
IsEmptyData(data) == data.type = "FeatureCollection" /\ data.features = <<>>

\* C36: the style.load that follows a style replacement rebuilds the heat
\* source and layer and the three route sources and layers; when the edges
\* are loaded the heat source holds the sample of the edges for the current
\* zoom, which is also the last-known sample from then on, otherwise it is
\* empty until the edges arrive and holds their sample then; the route
\* sources are empty whatever they held before the replacement
C36_RecreateRepopulates ==
    [][/\ ev'.op = "style.reload" =>
            /\ HeatRouteLayers \subseteq Ids(layers')
            /\ CustomSources \subseteq DOMAIN sources'
            /\ \A n \in Range(RouteNames) : IsEmptyData(sources'[n \o "-src"])
            /\ IF rawCache.null
               THEN IsEmptyData(sources'[HEAT_SOURCE_ID]) /\ waiting'
               ELSE /\ sources'[HEAT_SOURCE_ID] = buildHeatGeoJSON(rawCache.list, zoom)
                    /\ geoCache' = sources'[HEAT_SOURCE_ID]
                    /\ lastZB' = zoomBucket(zoom)
       /\ (ev'.op = "heat-loaded" /\ waiting /\ HEAT_SOURCE_ID \in DOMAIN sources) =>
            /\ ~rawCache'.null
            /\ sources'[HEAT_SOURCE_ID] = buildHeatGeoJSON(rawCache'.list, zoom)
      ]_vars

\* the replaced style has loaded after routes were drawn and the zoom was
\* lowered: the heat source holds a sample, the route sources are empty
W_C36_ReloadedAfterRoutes ==
    /\ ev.op = "style.reload" /\ loaded /\ fitReq.has /\ routeEndMarker # 0
    /\ zoom < initialZoom /\ ~rawCache.null
    /\ Len(sources[HEAT_SOURCE_ID].features) > 0
    /\ IsEmptyData(sources["fastest-src"])

\* the heat layer, when the style has it, is shown exactly when the heat
\* toggle is on, and map.__heatOn is the toggle's state
HeatTracksToggle ==
    (mounted /\ HEAT_LAYER_ID \in Ids(layers)) =>
        /\ At(layers, HEAT_LAYER_ID).layout["visibility"]
              = (IF heatRef THEN "visible" ELSE "none")
        /\ heatOn = heatRef

HeatDataCurrent ==
    /\ sources[HEAT_SOURCE_ID] = buildHeatGeoJSON(rawCache.list, zoom)
    /\ geoCache = sources[HEAT_SOURCE_ID]
    /\ lastZB = zoomBucket(zoom)

\* C38: once the edges are loaded and the heat source exists, the heat
\* source holds, after a zoomend, a style.load, the completion of the load
\* and a toggle-heat that switches the heat on, the sample of the loaded
\* edges for the bucket of the current zoom, and __HEAT_LAST_ZBUCKET names
\* that bucket; between those events it holds while no zoom is under way
C38_HeatDataMatchesBucket ==
    (mounted /\ ~rawCache.null /\ HEAT_SOURCE_ID \in DOMAIN sources
       /\ (~zoomAnim
           \/ ev.op \in {"zoomend", "style.load", "style.reload", "heat-loaded"}
           \/ (ev.op = "toggle-heat" /\ heatRef)))
    => HeatDataCurrent

\* the zoom went from 12.2 to 11.2 and the zoomend handler sampled anew
W_C38_ResampledAfterZoom ==
    /\ mounted /\ ev.op = "zoomend" /\ ev.samples = 1 /\ ~zoomAnim
    /\ zoom = initialZoom - ZoomStep /\ lastZB = "z10-11"
    /\ HEAT_SOURCE_ID \in DOMAIN sources
    /\ Len(sources[HEAT_SOURCE_ID].features) > 0

\* C39: route sources are updated independently: a draw-routes command
\* writes a route's source only when that route's geometry is given and the
\* source exists; the source of a route that is omitted or null keeps the
\* data it held, a missing source is skipped (none is created), and no
\* other source is written
C39_RouteSourcesIndependent ==
    [][(ev'.op = "draw-routes" /\ drawn'.has) =>
        /\ DOMAIN sources' = DOMAIN sources
        /\ \A id \in DOMAIN sources :
              (\A n \in Range(RouteNames) : id # n \o "-src") =>
                  sources'[id] = sources[id]
        /\ \A n \in Range(RouteNames) :
              (n \o "-src") \in DOMAIN sources =>
                  IF RouteOf(drawn'.detail, n).type = "null"
                  THEN SameData(sources'[n \o "-src"], sources[n \o "-src"])
                  ELSE SameData(sources'[n \o "-src"], RouteOf(drawn'.detail, n))
      ]_vars

\* a command that gives only the safest route was handled after another had
\* drawn the fastest: the fastest source still shows that line, the safest
\* source the new one, the weighted source is still empty
W_C39_OmittedRouteKept ==
    /\ ev.op = "draw-routes" /\ drawn.has
    /\ drawn.detail.fastest.type = "null" /\ drawn.detail.weighted.type = "null"
    /\ drawn.detail.safest.type = "LineString"
    /\ \A n \in Range(RouteNames) : (n \o "-src") \in DOMAIN sources
    /\ sources["fastest-src"].type = "LineString"
    /\ sources["fastest-src"].coordinates = Line2
    /\ SameData(sources["safest-src"], drawn.detail.safest)
    /\ IsEmptyData(sources["weighted-src"])

\* the member of the routes object that feeds the route of a name
BackendPath(data, n) ==
    IF n = "fastest" THEN data.shortest_path
    ELSE IF n = "safest" THEN data.safest_path ELSE data.weighted_path

\* a path the conversion accepts: an array of at least two points
Drawable(path) == path.defined /\ Len(path.items) >= 2

\* the data is a line feature whose k-th vertex is the k-th [lat, lon] pair
\* of the path, as [lon, lat]
ShowsPath(data, path) ==
    /\ data.type = "Feature" /\ data.geometry.type = "LineString"
    /\ Len(data.geometry.coordinates) = Len(path.items)
    /\ \A k \in 1..Len(path.items) :
          /\ data.geometry.coordinates[k][1] = path.items[k][2]
          /\ data.geometry.coordinates[k][2] = path.items[k][1]

\* the camera request frames the points of the path
FitsPath(req, path) ==
    LET Lon == {path.items[k][2] : k \in 1..Len(path.items)}
        Lat == {path.items[k][1] : k \in 1..Len(path.items)}
    IN  /\ req.has /\ req.padding = 60
        /\ req.box[1][1] \in Lon /\ req.box[2][1] \in Lon
        /\ req.box[1][2] \in Lat /\ req.box[2][2] \in Lat
        /\ \A x \in Lon : req.box[1][1] <= x /\ x <= req.box[2][1]
        /\ \A y \in Lat : req.box[1][2] <= y /\ y <= req.box[2][2]

\* the routes object handed to window.__drawRoutesFromBackend by the pick
DrawnFromBackend ==
    /\ ev'.op = "pick-suggestion" /\ mounted /\ "draw-routes" \in listeners
    /\ ~routesOrMock(picked'.backendUrl, picked'.answer,
                     FALLBACK_CENTER, picked'.dest).null

\* C40: routes drawn from backend data: each path of [lat, lon] pairs with
\* at least two points becomes the line of [lon, lat] pairs in the same
\* order in its route source, a path with fewer than two points (or none)
\* yields no geometry and its source keeps its data; when the routes object
\* has no `active' the active route is `weighted': the camera fit and the
\* end marker follow the weighted path, and when it is absent the end
\* marker is left as it was and the camera request is the one the pick
\* made before the routes were drawn
C40_BackendRoutesDrawn ==
    [][DrawnFromBackend =>
        LET data == routesOrMock(picked'.backendUrl, picked'.answer,
                                 FALLBACK_CENTER, picked'.dest) IN
        /\ \A n \in Range(RouteNames) :
              (n \o "-src") \in DOMAIN sources =>
                  IF Drawable(BackendPath(data, n))
                  THEN ShowsPath(sources'[n \o "-src"], BackendPath(data, n))
                  ELSE SameData(sources'[n \o "-src"], sources[n \o "-src"])
        /\ data.active = "" =>
              IF Drawable(data.weighted_path)
              THEN /\ FitsPath(fitReq', data.weighted_path)
                   /\ routeEndMarker' > 0
                   /\ LET last == data.weighted_path.items[Len(data.weighted_path.items)]
                      IN  routeMarkers'[routeEndMarker'] = <<last[2], last[1]>>
              ELSE /\ routeMarkers' = routeMarkers
                   /\ routeEndMarker' = routeEndMarker
                   /\ fitReq' = IF "fit-route-points" \in listeners
                                THEN onFitRoutePoints(World, FALLBACK_CENTER,
                                                      picked'.dest).fitReq
                                ELSE fitReq
      ]_vars

\* the endpoint answered with a shortest path of one point, no safest path,
\* a weighted path of two points and no `active': the weighted source shows
\* the two points as [lon, lat], the fastest source is still empty, and the
\* end marker stands on the last point of the weighted path
W_C40_WeightedByDefault ==
    /\ ev.op = "pick-suggestion" /\ mounted /\ picked.has /\ picked.backendUrl
    /\ picked.answer.arrives /\ picked.answer.json /\ ~picked.answer.body.null
    /\ picked.answer.body.active = ""
    /\ Len(picked.answer.body.shortest_path.items) = 1
    /\ picked.answer.body.weighted_path = Path(BackendPathB)
    /\ \A n \in Range(RouteNames) : (n \o "-src") \in DOMAIN sources
    /\ sources["weighted-src"] =
          Feature(LineString(<<<<-7399, 4076>>, <<-7397, 4078>>>>))
    /\ IsEmptyData(sources["fastest-src"])
    /\ routeEndMarker > 0 /\ routeMarkers[routeEndMarker] = <<-7397, 4078>>
    /\ fitReq.has /\ fitReq.padding = 60

====
